---- MODULE Spec2Model ----
(***************************************************************************)
(* Model of the object-store storage engine (StorageService) and of the    *)
(* HTTP handlers that call it.                                             *)
(*                                                                         *)
(* Strings (bucket names, keys, regions, etags) are sequences of byte      *)
(* values; payloads are sequences of bytes.  The metadata store is two     *)
(* sets of rows, the payload tree is a set of directories and a function   *)
(* from file paths to contents.  A path is a sequence of components below  *)
(* base_path.  Every await on the database or the filesystem is one step   *)
(* of a task, so the tasks interleave exactly where the code suspends.     *)
(***************************************************************************)
EXTENDS Integers, Sequences, FiniteSets, TLC

(***************************************************************************)
(* Bounds of the model.                                                    *)
(***************************************************************************)
NumTasks == 2
MaxOps == 3
MaxFaults == 1
MaxClock == 1

(***************************************************************************)
(* String helpers (str::starts_with, ends_with, contains, split).          *)
(***************************************************************************)
None == <<>>

Some(x) == <<x>>

starts_with(s, pat) ==
    Len(pat) <= Len(s) /\ SubSeq(s, 1, Len(pat)) = pat

ends_with(s, pat) ==
    Len(pat) <= Len(s) /\ SubSeq(s, Len(s) - Len(pat) + 1, Len(s)) = pat

contains(s, pat) ==
    \E i \in 1..(Len(s) - Len(pat) + 1) : SubSeq(s, i, i + Len(pat) - 1) = pat

\* str::find: the first position (0-based) at which pat occurs, or -1.
find(s, pat) ==
    IF contains(s, pat)
    THEN (CHOOSE i \in 1..(Len(s) - Len(pat) + 1) :
             /\ SubSeq(s, i, i + Len(pat) - 1) = pat
             /\ \A j \in 1..(i - 1) : SubSeq(s, j, j + Len(pat) - 1) # pat) - 1
    ELSE -1

\* str::split(sep) for a one-byte separator: the pieces, empty ones included.
RECURSIVE split(_, _)
split(s, sep) ==
    IF \E i \in 1..Len(s) : s[i] = sep
    THEN LET i == CHOOSE i \in 1..Len(s) : s[i] = sep /\ \A j \in 1..(i - 1) : s[j] # sep
         IN <<SubSeq(s, 1, i - 1)>> \o split(SubSeq(s, i + 1, Len(s)), sep)
    ELSE <<s>>

Slash == 47
Dot == 46
Hyphen == 45
Backslash == 92

\* The control bytes without DEL.
is_ascii_control_below_space(b) == b < 32

is_ascii_control(b) == b < 32 \/ b = 127

is_ascii_digit(b) == b >= 48 /\ b <= 57

is_ascii_lowercase(b) == b >= 97 /\ b <= 122

is_ascii_uppercase(b) == b >= 65 /\ b <= 90

\* char::is_whitespace restricted to one-byte characters.
is_whitespace(b) == (b >= 9 /\ b <= 13) \/ b = 32

to_ascii_lowercase(b) == IF is_ascii_uppercase(b) THEN b + 32 ELSE b

to_lowercase(s) == [i \in 1..Len(s) |-> to_ascii_lowercase(s[i])]

eq_ignore_ascii_case(s, t) == to_lowercase(s) = to_lowercase(t)

(***************************************************************************)
(* Naming and validation.                                                  *)
(***************************************************************************)
MAX_OBJECT_KEY_LEN == 1024
BUCKET_NAME_MIN_LEN == 3
BUCKET_NAME_MAX_LEN == 63

SUPPORTED_REGIONS ==
    { <<108, 111, 99, 97, 108>>,                                         \* local
      <<117, 115, 45, 101, 97, 115, 116, 45, 49>>,                       \* us-east-1
      <<117, 115, 45, 101, 97, 115, 116, 45, 50>>,                       \* us-east-2
      <<117, 115, 45, 119, 101, 115, 116, 45, 49>>,                      \* us-west-1
      <<117, 115, 45, 119, 101, 115, 116, 45, 50>>,                      \* us-west-2
      <<101, 117, 45, 119, 101, 115, 116, 45, 49>>,                      \* eu-west-1
      <<97, 112, 45, 115, 111, 117, 116, 104, 101, 97, 115, 116, 45, 49>>,  \* ap-southeast-1
      <<97, 112, 45, 110, 111, 114, 116, 104, 101, 97, 115, 116, 45, 49>>,  \* ap-northeast-1
      <<97, 112, 45, 115, 111, 117, 116, 104, 45, 49>>,                  \* ap-south-1
      <<97, 112, 45, 115, 111, 117, 116, 104, 45, 50>>,                  \* ap-south-2
      <<97, 112, 45, 115, 111, 117, 116, 104, 101, 97, 115, 116, 45, 50>>,  \* ap-southeast-2
      <<97, 112, 45, 115, 111, 117, 116, 104, 101, 97, 115, 116, 45, 51>>,  \* ap-southeast-3
      <<97, 112, 45, 115, 111, 117, 116, 104, 101, 97, 115, 116, 45, 52>>,  \* ap-southeast-4
      <<97, 112, 45, 110, 111, 114, 116, 104, 101, 97, 115, 116, 45, 50>>,  \* ap-northeast-2
      <<97, 112, 45, 110, 111, 114, 116, 104, 101, 97, 115, 116, 45, 51>>,  \* ap-northeast-3
      <<109, 101, 45, 115, 111, 117, 116, 104, 45, 49>> }                \* me-south-1

\* The outcome of a validator or of an operation that returns no value.
Ok == [kind |-> "Ok", row |-> None, content |-> None]

Err(kind) == [kind |-> kind, row |-> None, content |-> None]

\* The length test with >= for >.
ensure_key_safe_exclusive(key) ==
    IF Len(key) = 0 THEN Err("InvalidObjectKey")
    ELSE IF Len(key) >= MAX_OBJECT_KEY_LEN THEN Err("InvalidObjectKey")
    ELSE IF starts_with(key, <<Slash>>) \/ contains(key, <<Dot, Dot>>)
         THEN Err("InvalidObjectKey")
    ELSE IF \E i \in 1..Len(key) :
                is_ascii_control(key[i]) \/ key[i] = Backslash \/ key[i] = 0
         THEN Err("InvalidObjectKey")
    ELSE Ok

ensure_key_safe(key) ==
    IF Len(key) = 0 THEN Err("InvalidObjectKey")
    ELSE IF Len(key) > MAX_OBJECT_KEY_LEN THEN Err("InvalidObjectKey")
    ELSE IF starts_with(key, <<Slash>>) \/ contains(key, <<Dot, Dot>>)
         THEN Err("InvalidObjectKey")
    ELSE IF \E i \in 1..Len(key) :
                is_ascii_control(key[i]) \/ key[i] = Backslash \/ key[i] = 0
         THEN Err("InvalidObjectKey")
    ELSE Ok

\* str::parse::<u8> of a non-empty string of at most three ASCII digits.
RECURSIVE parse_decimal(_)
parse_decimal(s) ==
    IF Len(s) = 0 THEN 0
    ELSE 10 * parse_decimal(SubSeq(s, 1, Len(s) - 1)) + (s[Len(s)] - 48)

\* The segments without segment.parse::<u8>().
is_ipv4_like_any_digits(name) ==
    LET parts == split(name, Dot)
    IN /\ Len(parts) = 4
       /\ \A i \in 1..4 :
            /\ Len(parts[i]) # 0
            /\ Len(parts[i]) <= 3
            /\ \A j \in 1..Len(parts[i]) : is_ascii_digit(parts[i][j])

is_ipv4_like(name) ==
    LET parts == split(name, Dot)
    IN /\ Len(parts) = 4
       /\ \A i \in 1..4 :
            /\ Len(parts[i]) # 0
            /\ Len(parts[i]) <= 3
            /\ \A j \in 1..Len(parts[i]) : is_ascii_digit(parts[i][j])
            /\ parse_decimal(parts[i]) <= 255

ensure_bucket_name_safe(name) ==
    IF Len(name) > 0 /\ (is_whitespace(name[1]) \/ is_whitespace(name[Len(name)]))
    THEN Err("InvalidBucketName")
    ELSE IF Len(name) < BUCKET_NAME_MIN_LEN \/ Len(name) > BUCKET_NAME_MAX_LEN
    THEN Err("InvalidBucketName")
    ELSE IF ~ \A i \in 1..Len(name) :
                \/ is_ascii_lowercase(name[i])
                \/ is_ascii_digit(name[i])
                \/ name[i] = Dot
                \/ name[i] = Hyphen
    THEN Err("InvalidBucketName")
    ELSE IF \/ starts_with(name, <<Dot>>)
            \/ ends_with(name, <<Dot>>)
            \/ starts_with(name, <<Hyphen>>)
            \/ ends_with(name, <<Hyphen>>)
    THEN Err("InvalidBucketName")
    ELSE IF \/ contains(name, <<Dot, Dot>>)
            \/ contains(name, <<Hyphen, Dot>>)
            \/ contains(name, <<Dot, Hyphen>>)
    THEN Err("InvalidBucketName")
    ELSE IF is_ipv4_like(name) THEN Err("InvalidBucketName")
    ELSE Ok

ensure_region_valid(region) ==
    IF \E candidate \in SUPPORTED_REGIONS : eq_ignore_ascii_case(candidate, region)
    THEN Ok
    ELSE Err("UnsupportedRegion")

(***************************************************************************)
(* Digest.  md5 stands for the md5 crate: a 16-bit running digest that is  *)
(* folded over the bytes in stream order (Context::consume), so that the   *)
(* digest of a payload does not depend on how it is cut into chunks, and   *)
(* that is rendered byte by byte as lowercase hexadecimal.                 *)
(***************************************************************************)
Context_new == 5381

RECURSIVE Context_consume(_, _)
Context_consume(h, chunk) ==
    IF Len(chunk) = 0 THEN h
    ELSE IF Len(chunk) = 1 THEN (h * 33 + chunk[1] + 1) % 65536
    ELSE LET half == Len(chunk) \div 2
             mid == Context_consume(h, SubSeq(chunk, 1, half))
         IN CASE mid \in 0..65535 ->
                 Context_consume(mid, SubSeq(chunk, half + 1, Len(chunk)))

\* Context::compute: the digest's bytes.
Context_compute(h) == <<h \div 256, h % 256>>

md5_compute(data) == Context_compute(Context_consume(Context_new, data))

hex_digit(n) == IF n < 10 THEN 48 + n ELSE 87 + n

\* format!("{:02x}", byte)
hex02(byte) == <<hex_digit(byte \div 16), hex_digit(byte % 16)>>

\* format!("{:x}", digest): every byte of the digest as two lowercase hex digits.
RECURSIVE hex(_)
hex(digest) ==
    IF Len(digest) = 0 THEN <<>>
    ELSE hex02(digest[1]) \o hex(SubSeq(digest, 2, Len(digest)))

(***************************************************************************)
(* Path planner.  base_path is the empty path.                             *)
(***************************************************************************)
bucket_root(bucket_name) == <<bucket_name>>

object_shards(bucket_name, key) ==
    LET digest == md5_compute(bucket_name \o <<Slash>> \o key)
    IN <<hex02(digest[1]), hex02(digest[2])>>

\* PathBuf::push(key): the key's components; empty and "." components are no
\* components of a path.
path_components(key) ==
    SelectSeq(split(key, Slash), LAMBDA c : c # <<>> /\ c # <<Dot>>)

\* A path without the shard directories.
object_path_flat(bucket_name, key) == bucket_root(bucket_name) \o path_components(key)

object_path(bucket_name, key) ==
    bucket_root(bucket_name) \o object_shards(bucket_name, key) \o path_components(key)

\* Path::parent
parent(path) == SubSeq(path, 1, Len(path) - 1)

(***************************************************************************)
(* Inputs of the operations.                                               *)
(***************************************************************************)
Tasks == 1..NumTasks

BucketNames == { <<98, 107, 116>> }                 \* "bkt"

Regions == { <<108, 111, 99, 97, 108>>,             \* "local"
             <<85, 115, 45, 87, 101, 115, 116, 45, 50>> }   \* "Us-West-2"

Keys == { <<107>> }                                 \* "k"

ContentTypes == { None }

Bodies == { <<1>>, <<2, 3>> }

\* ListObjectsParams: everything, and the keys LIKE 'K%' in pages of one.
ListParams ==
    { [prefix |-> None, delimiter |-> None, continuation_token |-> None,
       start_after |-> None, max_keys |-> 1000],
      [prefix |-> Some(<<75>>), delimiter |-> Some(<<47>>), continuation_token |-> None,
       start_after |-> None, max_keys |-> 0] }

\* The keys the listings are made over, in ascending order: "A/b", "a", "a/b",
\* "a/c", "a/d", "ab/c", "b".
ListKeys ==
    << <<65, 47, 98>>, <<97>>, <<97, 47, 98>>, <<97, 47, 99>>, <<97, 47, 100>>,
       <<97, 98, 47, 99>>, <<98>> >>

\* ListObjectsParams of a first page.
ListInputs ==
    [prefix : {None, Some(<<97>>), Some(<<65>>)},
     delimiter : {None, Some(<<47>>)},
     continuation_token : {None, Some(<<97>>)},
     start_after : {None, Some(<<97, 47, 98>>)},
     max_keys : {0, 1, 2, 1000}]

(***************************************************************************)
(* State.                                                                  *)
(*   buckets, objects  the rows of the two tables of the metadata store    *)
(*   dirs, files       the payload tree below base_path                    *)
(*   task              each task's position and locals                     *)
(*   uuid              the number of Uuid::new_v4() values drawn so far    *)
(*   now               the latest reading of Utc::now()                    *)
(*   faults            the database and I/O failures injected so far       *)
(*   nops              the operations invoked so far                       *)
(*   hist              the completed operations, in order of completion    *)
(*   renames, commits  the operations that installed a payload, and that   *)
(*                     changed an object row, in the order they did        *)
(***************************************************************************)
VARIABLES buckets, objects, dirs, files, task, uuid, now, faults, nops, hist,
          renames, commits

vars == <<buckets, objects, dirs, files, task, uuid, now, faults, nops, hist,
          renames, commits>>

IdleTask ==
    [pc |-> "idle", op |-> "none", id |-> 0, inv |-> 0,
     bucket |-> <<>>, key |-> <<>>, content_type |-> None, region |-> <<>>,
     body |-> <<>>, stream |-> <<>>, bucket_rec |-> None, object |-> None,
     file_path |-> <<>>, tmp_path |-> <<>>, size_bytes |-> 0, digest |-> 0,
     last_modified |-> 0, current |-> <<>>, params |-> None]

(***************************************************************************)
(* Filesystem (tokio::fs).                                                 *)
(***************************************************************************)
Prefixes(path) == { SubSeq(path, 1, n) : n \in 1..Len(path) }

\* A directory exists: base_path always does.
dir_exists(d, path) == path = <<>> \/ path \in d

dir_is_empty(d, f, path) ==
    /\ \A q \in d : parent(q) # path
    /\ \A q \in DOMAIN f : parent(q) # path

\* fs::create_dir_all: fails when a component of the path is a file.
create_dir_all_ok(f, path) == \A q \in Prefixes(path) : q \notin DOMAIN f

create_dir_all(d, path) == d \cup Prefixes(path)

\* File::create / the content a write leaves.
write_file(f, path, content) ==
    [q \in DOMAIN f \cup {path} |-> IF q = path THEN content ELSE f[q]]

\* fs::remove_file (the caller decides what a missing file means).
remove_file(f, path) == [q \in DOMAIN f \ {path} |-> f[q]]

\* fs::rename(from, to) of a file onto a path that is no directory.
rename_ok(d, f, from, to) ==
    from \in DOMAIN f /\ dir_exists(d, parent(to)) /\ to \notin d

rename(f, from, to) ==
    [q \in (DOMAIN f \ {from}) \cup {to} |-> IF q = to THEN f[from] ELSE f[q]]

\* fs::remove_dir_all(path): the tree below path, and path, are gone.
remove_dir_all_dirs(d, path) == { q \in d : ~ starts_with(q, path) }

remove_dir_all_files(f, path) ==
    [q \in { r \in DOMAIN f : ~ starts_with(r, path) } |-> f[q]]

\* fs::remove_dir: "Ok", "NotFound" or "DirectoryNotEmpty".
\* A removal that does not look at what the directory holds.
remove_dir_result_force(d, f, path) ==
    IF path \notin d THEN "NotFound" ELSE "Ok"

remove_dir_result(d, f, path) ==
    IF path \notin d THEN "NotFound"
    ELSE IF dir_is_empty(d, f, path) THEN "Ok"
    ELSE "DirectoryNotEmpty"

(***************************************************************************)
(* Metadata store adapter.                                                 *)
(***************************************************************************)
\* fetch_bucket's query: the rows named `bucket`.
bucket_rows(bucket) == { b \in buckets : b.name = bucket }

fetch_bucket(bucket) ==
    IF ensure_bucket_name_safe(bucket) # Ok THEN ensure_bucket_name_safe(bucket)
    ELSE IF bucket_rows(bucket) = {} THEN Err("BucketNotFound")
    ELSE [kind |-> "Ok", row |-> Some(CHOOSE b \in bucket_rows(bucket) : TRUE),
          content |-> None]

\* The rows of a key in whatever bucket.
object_rows_any_bucket(objs, bucket_id, key) == { o \in objs : o.key = key }

object_rows(objs, bucket_id, key) ==
    { o \in objs : o.key = key /\ o.bucket_id = bucket_id }

fetch_object_any(bucket_rec, key) ==
    LET rows == object_rows(objects, bucket_rec.id, key)
    IN IF rows = {} THEN Err("ObjectNotFound")
       ELSE [kind |-> "Ok", row |-> Some(CHOOSE o \in rows : TRUE), content |-> None]

fetch_object(bucket_rec, key) ==
    LET live == { o \in object_rows(objects, bucket_rec.id, key) : ~ o.is_deleted }
    IN IF live = {} THEN Err("ObjectNotFound")
       ELSE [kind |-> "Ok", row |-> Some(CHOOSE o \in live : TRUE), content |-> None]

\* The row an upload binds to its INSERT.
new_object(id, bucket_id, key, content_type, size_bytes, etag, last_modified) ==
    [id |-> id, bucket_id |-> bucket_id, key |-> key,
     filename |-> split(key, Slash)[Len(split(key, Slash))],
     content_type |-> content_type, size_bytes |-> size_bytes,
     etag |-> Some(etag), storage_class |-> "STANDARD",
     last_modified |-> last_modified, version_id |-> None, is_deleted |-> FALSE]

\* ON CONFLICT(bucket_id, key) DO UPDATE: the row the statement leaves and returns.
upsert_row_do_nothing(objs, new) ==
    IF object_rows(objs, new.bucket_id, new.key) = {} THEN new
    ELSE CHOOSE o \in object_rows(objs, new.bucket_id, new.key) : TRUE

\* An upsert that writes the id it was given over the old one.
upsert_row_fresh_id(objs, new) == new

\* The upsert without is_deleted = 0 in its SET list.
upsert_row_stays_deleted(objs, new) ==
    IF object_rows(objs, new.bucket_id, new.key) = {} THEN new
    ELSE LET old == CHOOSE o \in object_rows(objs, new.bucket_id, new.key) : TRUE
         IN [new EXCEPT !.id = old.id, !.is_deleted = old.is_deleted]

upsert_row(objs, new) ==
    IF object_rows(objs, new.bucket_id, new.key) = {} THEN new
    ELSE [new EXCEPT !.id = (CHOOSE o \in object_rows(objs, new.bucket_id, new.key) : TRUE).id]

\* INSERT ... ON CONFLICT(bucket_id, key) DO UPDATE SET ...
upsert_object_inserts(objs, new) == objs \cup {new}

upsert_object(objs, new) ==
    (objs \ object_rows(objs, new.bucket_id, new.key)) \cup {upsert_row(objs, new)}

\* UPDATE objects SET is_deleted = 1 WHERE key = ? AND bucket_id = ?
soft_delete_object(objs, bucket_id, key) ==
    { IF o \in object_rows(objs, bucket_id, key) THEN [o EXCEPT !.is_deleted = TRUE] ELSE o
      : o \in objs }

rows_affected(objs, bucket_id, key) == Cardinality(object_rows(objs, bucket_id, key))

\* objects(bucket_id FK): what the schema may say of a bucket row that object rows
\* refer to when it is deleted.
ON_DELETE == {"CASCADE", "RESTRICT"}

\* objects(bucket_id FK): a row is inserted only for a bucket row that exists.
foreign_key_ok(bkts, row) == \E b \in bkts : b.id = row.bucket_id

\* DELETE FROM buckets WHERE name = ?, with the referential action of the schema.
delete_bucket_rows_unchecked(bkts, objs, name, action) ==
    [err |-> FALSE,
     buckets |-> { b \in bkts : b.name # name },
     objects |-> objs,
     rows_affected |-> Cardinality({ b \in bkts : b.name = name })]

delete_bucket_rows(bkts, objs, name, action) ==
    LET gone == { b \in bkts : b.name = name }
        refs == { o \in objs : \E b \in gone : o.bucket_id = b.id }
    IN IF refs # {} /\ action = "RESTRICT"
       THEN [err |-> TRUE, buckets |-> bkts, objects |-> objs, rows_affected |-> 0]
       ELSE [err |-> FALSE, buckets |-> bkts \ gone, objects |-> objs \ refs,
             rows_affected |-> Cardinality(gone)]

\* buckets(name UNIQUE): the INSERT of a row whose name is taken fails.
buckets_name_taken(bkts, name) == \E b \in bkts : b.name = name

\* The message of the error an INSERT INTO buckets ends with; empty when it succeeds.
\* "UNIQUE constraint failed: buckets.name"
insert_bucket_error(bkts, row) ==
    IF buckets_name_taken(bkts, row.name)
    THEN <<85, 78, 73, 81, 85, 69, 32, 99, 111, 110, 115, 116, 114, 97, 105, 110, 116, 32,
           102, 97, 105, 108, 101, 100, 58, 32, 98, 117, 99, 107, 101, 116, 115, 46,
           110, 97, 109, 101>>
    ELSE <<>>

\* is_unique_violation: db_err.message().to_ascii_lowercase().contains("unique")
is_unique_violation_exact(err) == contains(err, <<117, 110, 105, 113, 117, 101>>)

is_unique_violation(err) ==
    contains(to_lowercase(err), <<117, 110, 105, 113, 117, 101>>)

\* The handler's test: msg.contains("UNIQUE") || msg.contains("unique")
handler_unique_violation(msg) ==
    \/ contains(msg, <<85, 78, 73, 81, 85, 69>>)
    \/ contains(msg, <<117, 110, 105, 113, 117, 101>>)

\* key LIKE pattern: % is any run of characters, _ any one, ASCII letters match
\* in either case.
RECURSIVE like(_, _)
like(pattern, s) ==
    IF pattern = <<>> THEN s = <<>>
    ELSE IF Head(pattern) = 37
         THEN like(Tail(pattern), s) \/ (s # <<>> /\ like(pattern, Tail(s)))
    ELSE IF s = <<>> THEN FALSE
    ELSE /\ \/ Head(pattern) = 95
            \/ to_ascii_lowercase(Head(pattern)) = to_ascii_lowercase(Head(s))
         /\ like(Tail(pattern), Tail(s))

\* a < b as the store and BTreeSet compare text: byte by byte.
RECURSIVE bytes_lt(_, _)
bytes_lt(a, b) ==
    IF b = <<>> THEN FALSE
    ELSE IF a = <<>> THEN TRUE
    ELSE IF Head(a) # Head(b) THEN Head(a) < Head(b)
    ELSE bytes_lt(Tail(a), Tail(b))

\* ORDER BY key DESC
RECURSIVE order_by_key_desc(_)
order_by_key_desc(rows) ==
    IF rows = {} THEN <<>>
    ELSE LET first == CHOOSE o \in rows : \A p \in rows : ~ bytes_lt(o.key, p.key)
         IN <<first>> \o order_by_key_desc(rows \ {first})

\* ORDER BY key ASC
RECURSIVE order_by_key(_)
order_by_key(rows) ==
    IF rows = {} THEN <<>>
    ELSE LET first == CHOOSE o \in rows : \A p \in rows : ~ bytes_lt(p.key, o.key)
         IN <<first>> \o order_by_key(rows \ {first})

\* BTreeSet<String>::into_iter().collect()
RECURSIVE into_sorted(_)
into_sorted(S) ==
    IF S = {} THEN <<>>
    ELSE LET first == CHOOSE x \in S : \A y \in S : ~ bytes_lt(y, x)
         IN <<first>> \o into_sorted(S \ {first})

\* clamp without the lower limit.
clamp_upper(x, lo, hi) == IF x > hi THEN hi ELSE x

clamp(x, lo, hi) == IF x < lo THEN lo ELSE IF x > hi THEN hi ELSE x

\* compute_common_prefix without the requested prefix in front.
compute_common_prefix_bare(key, requested_prefix, delimiter) ==
    IF requested_prefix # None /\ ~ starts_with(key, requested_prefix[1]) THEN None
    ELSE LET after_prefix == IF requested_prefix # None
                             THEN SubSeq(key, Len(requested_prefix[1]) + 1, Len(key))
                             ELSE key
             pos == find(after_prefix, delimiter)
         IN IF pos # -1 THEN Some(SubSeq(after_prefix, 1, pos + Len(delimiter)))
            ELSE None

compute_common_prefix(key, requested_prefix, delimiter) ==
    IF requested_prefix # None /\ ~ starts_with(key, requested_prefix[1]) THEN None
    ELSE LET after_prefix == IF requested_prefix # None
                             THEN SubSeq(key, Len(requested_prefix[1]) + 1, Len(key))
                             ELSE key
             pos == find(after_prefix, delimiter)
         IN IF pos # -1
            THEN Some((IF requested_prefix # None THEN requested_prefix[1] ELSE <<>>)
                      \o SubSeq(after_prefix, 1, pos + Len(delimiter)))
            ELSE None

\* params.continuation_token.as_ref().or(params.start_after.as_ref())
cursor_start_after_first(params) ==
    IF params.start_after # None THEN params.start_after
    ELSE params.continuation_token

cursor(params) ==
    IF params.continuation_token # None THEN params.continuation_token
    ELSE params.start_after

\* The query of list_objects_v2 and what the engine makes of its rows.
list_objects(objs, bucket_rec, params) ==
    LET max_keys == clamp(params.max_keys, 1, 1000)
        fetch_limit == max_keys + 1
        token == cursor(params)
        selected == { o \in objs :
                        /\ o.bucket_id = bucket_rec.id
                        /\ ~ o.is_deleted
                        /\ params.prefix # None => like(params.prefix[1] \o <<37>>, o.key)
                        /\ token # None => bytes_lt(token[1], o.key) }
        ordered == order_by_key(selected)
        fetched == SubSeq(ordered, 1, IF Len(ordered) < fetch_limit THEN Len(ordered)
                                      ELSE fetch_limit)
        is_truncated == Len(fetched) = fetch_limit
        rows == IF is_truncated THEN SubSeq(fetched, 1, Len(fetched) - 1) ELSE fetched
        grouped(o) == IF params.delimiter = None THEN None
                      ELSE compute_common_prefix(o.key, params.prefix, params.delimiter[1])
        contents == SelectSeq(rows, LAMBDA o : grouped(o) = None)
        common_prefixes == { grouped(rows[i])[1] :
                               i \in { n \in DOMAIN rows : grouped(rows[n]) # None } }
    IN [objects |-> contents,
        common_prefixes |-> into_sorted(common_prefixes),
        is_truncated |-> is_truncated,
        next_continuation_token |-> IF is_truncated THEN Some(fetched[Len(fetched)].key)
                                    ELSE None,
        key_count |-> Len(contents) + Cardinality(common_prefixes)]

new_bucket(id, name, owner_id, region, created_at) ==
    [id |-> id, name |-> name, owner_id |-> owner_id, region |-> region,
     created_at |-> created_at, versioning_enabled |-> FALSE]

(***************************************************************************)
(* Tasks.  An operation is invoked in the step that runs it to its first   *)
(* await and returns in the step that runs its last one.                   *)
(***************************************************************************)
Invoked(op, bucket, key) ==
    [IdleTask EXCEPT !.op = op, !.id = nops + 1, !.inv = Len(hist),
                     !.bucket = bucket, !.key = key]

\* Idle tasks are interchangeable: the next operation runs on the first idle one.
free_task(t) ==
    /\ task[t].pc = "idle"
    /\ \A u \in Tasks : u < t => task[u].pc # "idle"
    /\ nops < MaxOps

\* The operation of record rec returns res.
Finish(t, rec, res) ==
    /\ hist' = Append(hist, [id |-> rec.id, op |-> rec.op, bucket |-> rec.bucket,
                             key |-> rec.key, body |-> rec.body,
                             region |-> rec.region, params |-> rec.params,
                             inv |-> rec.inv, res |-> res])
    /\ task' = [task EXCEPT ![t] = IdleTask]

\* The operation goes on from rec.
Continue(t, rec) ==
    /\ task' = [task EXCEPT ![t] = rec]
    /\ hist' = hist

\* A database or I/O call fails for a reason outside the engine.
Fault ==
    /\ faults < MaxFaults
    /\ faults' = faults + 1

NoFault == faults' = faults

\* Utc::now(): a reading that is not before the latest one.
Utc_now(reading) ==
    /\ reading \in now..MaxClock
    /\ now' = reading

\* Uuid::new_v4(): the n-th value drawn after the current ones.
Uuid_new_v4(n) == uuid + n

RECURSIVE decimal(_)
decimal(n) ==
    IF n < 10 THEN <<48 + n>> ELSE decimal(n \div 10) \o <<48 + (n % 10)>>

\* format!(".tmp-{}", Uuid::new_v4())
tmp_name(id) == <<46, 116, 109, 112, 45>> \o decimal(id)

\* The two checks the other way round.
resolve_bucket_first(bucket, key) ==
    IF fetch_bucket(bucket).kind # "Ok" THEN fetch_bucket(bucket) ELSE ensure_key_safe(key)

\* ensure_key_safe(key)?; fetch_bucket(bucket).await?
resolve(bucket, key) ==
    IF ensure_key_safe(key) # Ok THEN ensure_key_safe(key) ELSE fetch_bucket(bucket)

(***************************************************************************)
(* upload_object_stream                                                    *)
(***************************************************************************)
upload_begin(t, bucket, key, content_type, body) ==
    /\ free_task(t)
    /\ nops' = nops + 1
    /\ LET rec == [Invoked("upload_object_stream", bucket, key) EXCEPT
                      !.content_type = content_type, !.body = body, !.stream = body]
           r == resolve(bucket, key)
       IN IF r.kind # "Ok" THEN Finish(t, rec, r)
          ELSE Continue(t, [rec EXCEPT !.pc = "upload_create_dir",
                                       !.bucket_rec = r.row,
                                       !.file_path = object_path(r.row[1].name, key)])
    /\ UNCHANGED <<buckets, objects, dirs, files, uuid, now, faults, renames, commits>>

\* fs::create_dir_all(&parent).await?; the temp file's name.
upload_create_dir(t) ==
    /\ task[t].pc = "upload_create_dir"
    /\ LET rec == task[t]
           dir == parent(rec.file_path)
       IN \/ /\ NoFault
             /\ IF create_dir_all_ok(files, dir)
                THEN /\ dirs' = create_dir_all(dirs, dir)
                     /\ uuid' = Uuid_new_v4(1)
                     /\ Continue(t, [rec EXCEPT !.pc = "upload_create_tmp",
                                       !.tmp_path = Append(dir, tmp_name(Uuid_new_v4(1)))])
                ELSE /\ Finish(t, rec, Err("Io"))
                     /\ UNCHANGED <<dirs, uuid>>
          \/ /\ Fault
             /\ Finish(t, rec, Err("Io"))
             /\ UNCHANGED <<dirs, uuid>>
    /\ UNCHANGED <<buckets, objects, files, now, nops, renames, commits>>

\* File::create(&tmp_path).await?
upload_create_tmp(t) ==
    /\ task[t].pc = "upload_create_tmp"
    /\ LET rec == task[t]
       IN \/ /\ NoFault
             /\ IF dir_exists(dirs, parent(rec.tmp_path))
                THEN /\ files' = write_file(files, rec.tmp_path, <<>>)
                     /\ Continue(t, [rec EXCEPT !.pc = "upload_stream",
                                                !.size_bytes = 0,
                                                !.digest = Context_new])
                ELSE /\ Finish(t, rec, Err("Io"))
                     /\ files' = files
          \/ /\ Fault
             /\ Finish(t, rec, Err("Io"))
             /\ files' = files
    /\ UNCHANGED <<buckets, objects, dirs, uuid, now, nops, renames, commits>>

\* size_bytes += chunk.len() as i64; digest.consume(&chunk);
consume_restarts(rec, chunk) ==
    [rec EXCEPT !.size_bytes = rec.size_bytes + Len(chunk),
                !.digest = Context_consume(Context_new, chunk)]

consume(rec, chunk) ==
    [rec EXCEPT !.size_bytes = rec.size_bytes + Len(chunk),
                !.digest = Context_consume(rec.digest, chunk)]

\* One turn of the loop: stream.next().await, then file.write_all(&chunk).await.
upload_chunk(t) ==
    /\ task[t].pc = "upload_stream"
    /\ task[t].stream # <<>>
    /\ LET rec == task[t]
       IN \/ /\ NoFault
             /\ \E n \in 1..Len(rec.stream) :
                  LET chunk == SubSeq(rec.stream, 1, n)
                  IN /\ files' = IF rec.tmp_path \in DOMAIN files
                                 THEN write_file(files, rec.tmp_path,
                                                 files[rec.tmp_path] \o chunk)
                                 ELSE files
                     /\ Continue(t, [consume(rec, chunk) EXCEPT
                           !.stream = SubSeq(rec.stream, n + 1, Len(rec.stream))])
          \/ /\ Fault
             /\ files' = remove_file(files, rec.tmp_path)
             /\ Finish(t, rec, Err("Io"))
    /\ UNCHANGED <<buckets, objects, dirs, uuid, now, nops, renames, commits>>

\* The stream has ended: file.flush().await, file.sync_all().await.
upload_flush_sync(t) ==
    /\ task[t].pc = "upload_stream"
    /\ task[t].stream = <<>>
    /\ LET rec == task[t]
       IN \/ /\ NoFault
             /\ files' = files
             /\ Continue(t, [rec EXCEPT !.pc = "upload_rename"])
          \/ /\ Fault
             /\ files' = remove_file(files, rec.tmp_path)
             /\ Finish(t, rec, Err("Io"))
    /\ UNCHANGED <<buckets, objects, dirs, uuid, now, nops, renames, commits>>

\* The payload is installed; last_modified and etag are taken for the upsert.
upload_installed_keeps(t, rec) ==
    /\ files' = IF rec.file_path \in DOMAIN files
                THEN remove_file(files, rec.tmp_path)
                ELSE rename(files, rec.tmp_path, rec.file_path)
    /\ renames' = Append(renames, rec.id)
    /\ \E reading \in 0..MaxClock :
         /\ Utc_now(reading)
         /\ Continue(t, [rec EXCEPT !.pc = "upload_upsert", !.last_modified = reading])

\* The upsert is reached with the payload still in the temp file.
upload_installed_skips_rename(t, rec) ==
    /\ files' = files
    /\ renames' = renames
    /\ \E reading \in 0..MaxClock :
         /\ Utc_now(reading)
         /\ Continue(t, [rec EXCEPT !.pc = "upload_upsert", !.last_modified = reading])

upload_installed(t, rec) ==
    /\ files' = rename(files, rec.tmp_path, rec.file_path)
    /\ renames' = Append(renames, rec.id)
    /\ \E reading \in 0..MaxClock :
         /\ Utc_now(reading)
         /\ Continue(t, [rec EXCEPT !.pc = "upload_upsert", !.last_modified = reading])

\* fs::rename(&tmp_path, &file_path).await
upload_rename(t) ==
    /\ task[t].pc = "upload_rename"
    /\ LET rec == task[t]
       IN \/ /\ NoFault
             /\ IF rename_ok(dirs, files, rec.tmp_path, rec.file_path)
                THEN upload_installed(t, rec)
                ELSE /\ files' = remove_file(files, rec.tmp_path)
                     /\ Finish(t, rec, Err("Io"))
                     /\ UNCHANGED <<now, renames>>
          \/ /\ Fault                      \* ErrorKind::AlreadyExists
             /\ rec.file_path \in DOMAIN files
             /\ Continue(t, [rec EXCEPT !.pc = "upload_retry_remove"])
             /\ UNCHANGED <<files, now, renames>>
          \/ /\ Fault                      \* any other error
             /\ files' = remove_file(files, rec.tmp_path)
             /\ Finish(t, rec, Err("Io"))
             /\ UNCHANGED <<now, renames>>
    /\ UNCHANGED <<buckets, objects, dirs, uuid, nops, commits>>

\* fs::rename(&tmp_path, &file_path).await where the platform's rename does not
\* replace a file: onto an existing final path it reports
\* ErrorKind::AlreadyExists, with no fault of the disk.
upload_rename_exists(t) ==
    /\ task[t].pc = "upload_rename"
    /\ task[t].file_path \in DOMAIN files
    /\ Continue(t, [task[t] EXCEPT !.pc = "upload_retry_remove"])
    /\ UNCHANGED <<buckets, objects, dirs, files, uuid, now, faults, nops, renames, commits>>

\* fs::remove_file(&file_path).await?
upload_retry_remove(t) ==
    /\ task[t].pc = "upload_retry_remove"
    /\ LET rec == task[t]
       IN \/ /\ NoFault
             /\ IF rec.file_path \in DOMAIN files
                THEN /\ files' = remove_file(files, rec.file_path)
                     /\ Continue(t, [rec EXCEPT !.pc = "upload_retry_rename"])
                ELSE /\ files' = files
                     /\ Finish(t, rec, Err("Io"))
          \/ /\ Fault
             /\ files' = files
             /\ Finish(t, rec, Err("Io"))
    /\ UNCHANGED <<buckets, objects, dirs, uuid, now, nops, renames, commits>>

\* fs::rename(&tmp_path, &file_path).await?
upload_retry_rename(t) ==
    /\ task[t].pc = "upload_retry_rename"
    /\ LET rec == task[t]
       IN \/ /\ NoFault
             /\ IF rename_ok(dirs, files, rec.tmp_path, rec.file_path)
                THEN upload_installed(t, rec)
                ELSE /\ Finish(t, rec, Err("Io"))
                     /\ UNCHANGED <<files, now, renames>>
          \/ /\ Fault
             /\ Finish(t, rec, Err("Io"))
             /\ UNCHANGED <<files, now, renames>>
    /\ UNCHANGED <<buckets, objects, dirs, uuid, nops, commits>>

\* The row the upload binds: a fresh id, the digest as lowercase hex.
upload_row(rec) ==
    new_object(Uuid_new_v4(1), rec.bucket_rec[1].id, rec.key, rec.content_type,
               rec.size_bytes, hex(Context_compute(rec.digest)), rec.last_modified)

\* INSERT INTO objects ... ON CONFLICT ... RETURNING
upload_upsert(t) ==
    /\ task[t].pc = "upload_upsert"
    /\ LET rec == task[t]
       IN \/ /\ NoFault
             /\ foreign_key_ok(buckets, upload_row(rec))
             /\ objects' = upsert_object(objects, upload_row(rec))
             /\ uuid' = Uuid_new_v4(1)
             /\ commits' = Append(commits, rec.id)
             /\ Finish(t, rec, [kind |-> "Ok",
                                row |-> Some(upsert_row(objects, upload_row(rec))),
                                content |-> None])
          \/ /\ NoFault
             /\ ~ foreign_key_ok(buckets, upload_row(rec))
             /\ Continue(t, [rec EXCEPT !.pc = "upload_cleanup"])
             /\ UNCHANGED <<objects, uuid, commits>>
          \/ /\ Fault
             /\ Continue(t, [rec EXCEPT !.pc = "upload_cleanup"])
             /\ UNCHANGED <<objects, uuid, commits>>
    /\ UNCHANGED <<buckets, dirs, files, now, nops, renames>>

\* Err(err) => { let _ = fs::remove_file(&file_path).await; Err(Sqlx(err)) }
\* The cleanup that gives up the error of the upsert when the unlink fails.
upload_cleanup_result_strict(unlinked) == IF unlinked THEN Err("Sqlx") ELSE Err("Io")

\* What the upload returns after the cleanup: the error of the upsert, whether
\* fs::remove_file succeeded or not (let _ = ...).
upload_cleanup_result(unlinked) == Err("Sqlx")

upload_cleanup(t) ==
    /\ task[t].pc = "upload_cleanup"
    /\ \/ /\ NoFault
          /\ files' = remove_file(files, task[t].file_path)
          /\ Finish(t, task[t], upload_cleanup_result(TRUE))
       \/ /\ Fault                        \* the unlink fails: the error is dropped
          /\ files' = files
          /\ Finish(t, task[t], upload_cleanup_result(FALSE))
    /\ UNCHANGED <<buckets, objects, dirs, uuid, now, nops, renames, commits>>

\* The caller drops the future of upload_object_stream at the .await it is
\* suspended at: the File handle is closed, and nothing else runs.
upload_cancel(t) ==
    /\ task[t].op = "upload_object_stream"
    /\ task[t].pc # "idle"
    /\ Finish(t, task[t], Err("Cancelled"))
    /\ UNCHANGED <<buckets, objects, dirs, files, uuid, now, faults, nops, renames, commits>>

(***************************************************************************)
(* get_object_reader and get_object_metadata                               *)
(***************************************************************************)
reader_begin(t, bucket, key) ==
    /\ free_task(t)
    /\ nops' = nops + 1
    /\ LET rec == Invoked("get_object_reader", bucket, key)
           r == resolve(bucket, key)
       IN IF r.kind # "Ok" THEN Finish(t, rec, r)
          ELSE Continue(t, [rec EXCEPT !.pc = "reader_fetch", !.bucket_rec = r.row])
    /\ UNCHANGED <<buckets, objects, dirs, files, uuid, now, faults, renames, commits>>

\* self.fetch_object(&bucket_rec, key).await?
reader_fetch(t) ==
    /\ task[t].pc = "reader_fetch"
    /\ LET rec == task[t]
           r == fetch_object(rec.bucket_rec[1], rec.key)
       IN IF r.kind # "Ok" THEN Finish(t, rec, r)
          ELSE Continue(t, [rec EXCEPT !.pc = "reader_open", !.object = r.row,
                              !.file_path = object_path(rec.bucket_rec[1].name, rec.key)])
    /\ UNCHANGED <<buckets, objects, dirs, files, uuid, now, faults, nops, renames, commits>>

\* Every error of File::open as a filesystem failure.
open_map_err_io(kind) == Err("Io")

\* .map_err(|err| ...): io::ErrorKind::NotFound is ObjectNotFound, any other
\* kind is Io.
open_map_err(kind) == IF kind = "NotFound" THEN Err("ObjectNotFound") ELSE Err("Io")

\* File::open(&file_path): the handle reads the file that is at the path now.
reader_open(t) ==
    /\ task[t].pc = "reader_open"
    /\ LET rec == task[t]
       IN \/ /\ NoFault
             /\ IF rec.file_path \in DOMAIN files
                THEN Finish(t, rec, [kind |-> "Ok", row |-> rec.object,
                                     content |-> Some(files[rec.file_path])])
                ELSE Finish(t, rec, open_map_err("NotFound"))
          \/ /\ Fault
             /\ Finish(t, rec, open_map_err("Other"))
    /\ UNCHANGED <<buckets, objects, dirs, files, uuid, now, nops, renames, commits>>

metadata_begin(t, bucket, key) ==
    /\ free_task(t)
    /\ nops' = nops + 1
    /\ LET rec == Invoked("get_object_metadata", bucket, key)
           r == resolve(bucket, key)
       IN IF r.kind # "Ok" THEN Finish(t, rec, r)
          ELSE Continue(t, [rec EXCEPT !.pc = "metadata_fetch", !.bucket_rec = r.row])
    /\ UNCHANGED <<buckets, objects, dirs, files, uuid, now, faults, renames, commits>>

metadata_fetch(t) ==
    /\ task[t].pc = "metadata_fetch"
    /\ Finish(t, task[t], fetch_object(task[t].bucket_rec[1], task[t].key))
    /\ UNCHANGED <<buckets, objects, dirs, files, uuid, now, faults, nops, renames, commits>>

(***************************************************************************)
(* list_objects_v2                                                         *)
(***************************************************************************)
list_begin(t, bucket, params) ==
    /\ free_task(t)
    /\ nops' = nops + 1
    /\ LET rec == [Invoked("list_objects_v2", bucket, <<>>) EXCEPT !.params = Some(params)]
           r == fetch_bucket(bucket)
       IN IF r.kind # "Ok" THEN Finish(t, rec, r)
          ELSE Continue(t, [rec EXCEPT !.pc = "list_query", !.bucket_rec = r.row])
    /\ UNCHANGED <<buckets, objects, dirs, files, uuid, now, faults, renames, commits>>

\* builder.build_query_as().fetch_all(&*self.db).await?, then the grouping.
list_query(t) ==
    /\ task[t].pc = "list_query"
    /\ Finish(t, task[t],
              [kind |-> "Ok", row |-> None, content |-> None,
               list |-> list_objects(objects, task[t].bucket_rec[1], task[t].params[1])])
    /\ UNCHANGED <<buckets, objects, dirs, files, uuid, now, faults, nops, renames, commits>>

\* A client's first call of a listing.
list_first_page(t, bucket, params) ==
    /\ nops = 0
    /\ list_begin(t, bucket, params)

\* The client goes on with the page after the last: the same parameters, with
\* next_continuation_token as continuation_token.
list_next_page(t) ==
    /\ nops > 0
    /\ Len(hist) = nops
    /\ hist[Len(hist)].op = "list_objects_v2"
    /\ hist[Len(hist)].res.kind = "Ok"
    /\ hist[Len(hist)].res.list.is_truncated
    /\ list_begin(t, hist[Len(hist)].bucket,
                  [hist[Len(hist)].params[1] EXCEPT !.continuation_token =
                       hist[Len(hist)].res.list.next_continuation_token])

(***************************************************************************)
(* delete_object                                                           *)
(***************************************************************************)
\* handlers::delete_object: the status the handler makes of the engine's result.
\* impl From<StorageError> for AppError: the status of each kind the match
\* has an arm for.
AppError_from ==
    [kind \in {"BucketNotFound", "ObjectNotFound"} |-> "404"]
    @@ [kind \in {"BucketAlreadyExists"} |-> "409"]
    @@ [kind \in {"InvalidObjectKey"} |-> "400"]
    @@ [kind \in {"Sqlx", "Io"} |-> "500"]

delete_object_handler(res) == IF res.kind = "Ok" THEN "204" ELSE "404"

delete_begin(t, bucket, key) ==
    /\ free_task(t)
    /\ nops' = nops + 1
    /\ LET rec == Invoked("delete_object", bucket, key)
           r == resolve(bucket, key)
       IN IF r.kind # "Ok" THEN Finish(t, rec, r)
          ELSE Continue(t, [rec EXCEPT !.pc = "delete_fetch", !.bucket_rec = r.row])
    /\ UNCHANGED <<buckets, objects, dirs, files, uuid, now, faults, renames, commits>>

\* let object = self.fetch_object(&bucket_rec, key).await?
delete_fetch(t) ==
    /\ task[t].pc = "delete_fetch"
    /\ LET rec == task[t]
           r == fetch_object(rec.bucket_rec[1], rec.key)
       IN IF r.kind # "Ok" THEN Finish(t, rec, r)
          ELSE Continue(t, [rec EXCEPT !.pc = "delete_update", !.object = r.row])
    /\ UNCHANGED <<buckets, objects, dirs, files, uuid, now, faults, nops, renames, commits>>

\* UPDATE objects SET is_deleted = 1 ...; rows_affected() == 0 => ObjectNotFound
delete_update(t) ==
    /\ task[t].pc = "delete_update"
    /\ LET rec == task[t]
           bucket_id == rec.bucket_rec[1].id
       IN \/ /\ NoFault
             /\ objects' = soft_delete_object(objects, bucket_id, rec.key)
             /\ IF rows_affected(objects, bucket_id, rec.key) = 0
                THEN /\ Finish(t, rec, Err("ObjectNotFound"))
                     /\ commits' = commits
                ELSE /\ Continue(t, [rec EXCEPT !.pc = "delete_unlink",
                              !.file_path = object_path(rec.bucket_rec[1].name, rec.key)])
                     /\ commits' = Append(commits, rec.id)
          \/ /\ Fault
             /\ Finish(t, rec, Err("Sqlx"))
             /\ UNCHANGED <<objects, commits>>
    /\ UNCHANGED <<buckets, dirs, files, uuid, now, nops, renames>>

\* fs::remove_file(&file_path): a missing file is no error, any other error returns.
delete_unlink(t) ==
    /\ task[t].pc = "delete_unlink"
    /\ LET rec == task[t]
       IN \/ /\ NoFault
             /\ files' = remove_file(files, rec.file_path)
             /\ Continue(t, [rec EXCEPT !.pc = "delete_prune",
                                        !.current = parent(rec.file_path)])
          \/ /\ Fault
             /\ files' = files
             /\ Finish(t, rec, Err("Io"))
    /\ UNCHANGED <<buckets, objects, dirs, uuid, now, nops, renames, commits>>

\* The loop condition without `current != stop`.
prune_continues_at_stop(current, stop) == starts_with(current, stop)

\* prune_empty_dirs' loop condition.
prune_continues(current, stop) == starts_with(current, stop) /\ current # stop

\* One turn of prune_empty_dirs: fs::remove_dir(&current).await; delete_object
\* returns the pre-delete row when the loop ends.
delete_prune(t) ==
    /\ task[t].pc = "delete_prune"
    /\ LET rec == task[t]
           stop == bucket_root(rec.bucket_rec[1].name)
           done == [kind |-> "Ok", row |-> rec.object, content |-> None]
       IN IF ~ prune_continues(rec.current, stop)
          THEN /\ Finish(t, rec, done)
               /\ UNCHANGED <<dirs, faults>>
          ELSE \/ /\ NoFault
                  /\ IF remove_dir_result(dirs, files, rec.current) = "Ok"
                     THEN /\ dirs' = dirs \ {rec.current}
                          /\ IF prune_continues(parent(rec.current), stop)
                             THEN Continue(t, [rec EXCEPT !.current = parent(rec.current)])
                             ELSE Finish(t, rec, done)
                     ELSE /\ dirs' = dirs
                          /\ Finish(t, rec, done)
               \/ /\ Fault                 \* an unexpected error ends the loop
                  /\ dirs' = dirs
                  /\ Finish(t, rec, done)
    /\ UNCHANGED <<buckets, objects, files, uuid, now, nops, renames, commits>>

(***************************************************************************)
(* create_bucket (the engine's) and PUT /{bucket} (the handler's own)      *)
(***************************************************************************)
\* Validation, fs::create_dir_all(&bucket_root).await?, the Bucket value.
create_bucket_begin(t, name, region) ==
    /\ free_task(t)
    /\ nops' = nops + 1
    /\ LET rec == [Invoked("create_bucket", name, <<>>) EXCEPT
                      !.region = to_lowercase(region)]
       IN IF ensure_bucket_name_safe(name) # Ok
          THEN /\ Finish(t, rec, ensure_bucket_name_safe(name))
               /\ UNCHANGED <<dirs, uuid, now, faults>>
          ELSE IF ensure_region_valid(to_lowercase(region)) # Ok
          THEN /\ Finish(t, rec, ensure_region_valid(to_lowercase(region)))
               /\ UNCHANGED <<dirs, uuid, now, faults>>
          ELSE \/ /\ NoFault
                  /\ IF create_dir_all_ok(files, bucket_root(name))
                     THEN /\ dirs' = create_dir_all(dirs, bucket_root(name))
                          /\ uuid' = Uuid_new_v4(2)
                          /\ \E reading \in 0..MaxClock :
                               /\ Utc_now(reading)
                               /\ Continue(t, [rec EXCEPT
                                    !.pc = "create_bucket_insert",
                                    !.bucket_rec = Some(new_bucket(Uuid_new_v4(1), name,
                                        Uuid_new_v4(2), to_lowercase(region), reading))])
                     ELSE /\ Finish(t, rec, Err("Io"))
                          /\ UNCHANGED <<dirs, uuid, now>>
               \/ /\ Fault
                  /\ Finish(t, rec, Err("Io"))
                  /\ UNCHANGED <<dirs, uuid, now>>
    /\ UNCHANGED <<buckets, objects, files, renames, commits>>

\* INSERT INTO buckets ...: Ok(bucket), BucketAlreadyExists or Sqlx.
create_bucket_insert(t) ==
    /\ task[t].pc = "create_bucket_insert"
    /\ LET rec == task[t]
           bucket == rec.bucket_rec[1]
           err == insert_bucket_error(buckets, bucket)
       IN \/ /\ NoFault
             /\ IF err = <<>>
                THEN /\ buckets' = buckets \cup {bucket}
                     /\ Finish(t, rec, [kind |-> "Ok", row |-> Some(bucket),
                                        content |-> None])
                ELSE /\ buckets' = buckets
                     /\ Finish(t, rec, IF is_unique_violation(err)
                                       THEN Err("BucketAlreadyExists")
                                       ELSE Err("Sqlx"))
          \/ /\ Fault
             /\ buckets' = buckets
             /\ Finish(t, rec, Err("Sqlx"))
    /\ UNCHANGED <<objects, dirs, files, uuid, now, nops, renames, commits>>

\* handlers::create_bucket: the handler inserts the row itself.  region is the
\* body's LocationConstraint, or None.
http_create_bucket(t, bucket, location_constraint) ==
    /\ free_task(t)
    /\ nops' = nops + 1
    /\ LET region == IF location_constraint = None
                     THEN <<108, 111, 99, 97, 108>>          \* "local"
                     ELSE location_constraint[1]
           rec == [Invoked("PUT /{bucket}", bucket, <<>>) EXCEPT !.region = region]
       IN \/ /\ NoFault
             /\ \E reading \in 0..MaxClock :
                  LET row == new_bucket(Uuid_new_v4(1), bucket, Uuid_new_v4(2),
                                        region, reading)
                  IN /\ Utc_now(reading)
                     /\ uuid' = Uuid_new_v4(2)
                     /\ IF insert_bucket_error(buckets, row) = <<>>
                        THEN /\ buckets' = buckets \cup {row}
                             /\ Finish(t, rec, [kind |-> "200", row |-> Some(row),
                                                content |-> None])
                        ELSE /\ buckets' = buckets
                             /\ Finish(t, rec,
                                  IF handler_unique_violation(
                                         insert_bucket_error(buckets, row))
                                  THEN Err("409") ELSE Err("500"))
          \/ /\ Fault
             /\ Finish(t, rec, Err("500"))
             /\ UNCHANGED <<buckets, uuid, now>>
    /\ UNCHANGED <<objects, dirs, files, renames, commits>>

(***************************************************************************)
(* delete_bucket (the engine's) and DELETE /{bucket} (the handler's own)   *)
(***************************************************************************)
\* ensure_bucket_name_safe(name)?, the DELETE, rows_affected() == 0.
delete_bucket_begin(t, name) ==
    /\ free_task(t)
    /\ nops' = nops + 1
    /\ LET rec == Invoked("delete_bucket", name, <<>>)
       IN IF ensure_bucket_name_safe(name) # Ok
          THEN /\ Finish(t, rec, ensure_bucket_name_safe(name))
               /\ UNCHANGED <<buckets, objects, faults>>
          ELSE \/ /\ NoFault
                  /\ \E action \in ON_DELETE :
                       LET r == delete_bucket_rows(buckets, objects, name, action)
                       IN /\ buckets' = r.buckets
                          /\ objects' = r.objects
                          /\ IF r.err THEN Finish(t, rec, Err("Sqlx"))
                             ELSE IF r.rows_affected = 0
                             THEN Finish(t, rec, Err("BucketNotFound"))
                             ELSE Continue(t, [rec EXCEPT !.pc = "delete_bucket_remove_dir"])
               \/ /\ Fault
                  /\ Finish(t, rec, Err("Sqlx"))
                  /\ UNCHANGED <<buckets, objects>>
    /\ UNCHANGED <<dirs, files, uuid, now, renames, commits>>

\* What delete_bucket returns after fs::remove_dir_all ended with err ("Ok",
\* "NotFound" or "Other").
delete_bucket_result_strict(err) ==
    IF err \in {"Ok", "NotFound"} THEN [kind |-> "Ok", row |-> None, content |-> None]
    ELSE Err("Io")

delete_bucket_result(err) == [kind |-> "Ok", row |-> None, content |-> None]

\* fs::remove_dir_all(&bucket_path).await, its error logged at most.
delete_bucket_remove_dir(t) ==
    /\ task[t].pc = "delete_bucket_remove_dir"
    /\ LET rec == task[t]
           bucket_path == bucket_root(rec.bucket)
       IN \/ /\ NoFault
             /\ dirs' = remove_dir_all_dirs(dirs, bucket_path)
             /\ files' = remove_dir_all_files(files, bucket_path)
             /\ Finish(t, rec, delete_bucket_result(
                    IF dir_exists(dirs, bucket_path) THEN "Ok" ELSE "NotFound"))
          \/ /\ Fault
             /\ UNCHANGED <<dirs, files>>
             /\ Finish(t, rec, delete_bucket_result("Other"))
    /\ UNCHANGED <<buckets, objects, uuid, now, nops, renames, commits>>

\* handlers::delete_bucket: the handler deletes the row itself.
http_delete_bucket(t, bucket) ==
    /\ free_task(t)
    /\ nops' = nops + 1
    /\ LET rec == Invoked("DELETE /{bucket}", bucket, <<>>)
       IN \/ /\ NoFault
             /\ \E action \in ON_DELETE :
                  LET r == delete_bucket_rows(buckets, objects, bucket, action)
                  IN /\ buckets' = r.buckets
                     /\ objects' = r.objects
                     /\ Finish(t, rec, IF r.err THEN Err("500")
                                       ELSE [kind |-> "204", row |-> None,
                                             content |-> None])
          \/ /\ Fault
             /\ Finish(t, rec, Err("500"))
             /\ UNCHANGED <<buckets, objects>>
    /\ UNCHANGED <<dirs, files, uuid, now, renames, commits>>

(***************************************************************************)
(* Specification                                                           *)
(***************************************************************************)
\* The store right after migration: no rows, an empty base directory.
EmptyStore ==
    /\ buckets = {}
    /\ dirs = {}
    /\ uuid = 0

\* The store the engine is started on after create_bucket("bkt", "local").
StoreWithBucket ==
    /\ buckets = { new_bucket(1, <<98, 107, 116>>, 2, <<108, 111, 99, 97, 108>>, 0) }
    /\ dirs = { bucket_root(<<98, 107, 116>>) }
    /\ uuid = 2

\* The store after an upload of the body <<1>> to the key "k" of that bucket.
StoreWithObject ==
    /\ buckets = { new_bucket(1, <<98, 107, 116>>, 2, <<108, 111, 99, 97, 108>>, 0) }
    /\ objects = { new_object(4, 1, <<107>>, None, 1, hex(md5_compute(<<1>>)), 0) }
    /\ dirs = Prefixes(parent(object_path(<<98, 107, 116>>, <<107>>)))
    /\ files = (object_path(<<98, 107, 116>>, <<107>>) :> <<1>>)
    /\ uuid = 4

\* No request has come in yet.
NoRequests ==
    /\ task = [t \in Tasks |-> IdleTask]
    /\ now = 0
    /\ faults = 0
    /\ nops = 0
    /\ hist = <<>>
    /\ renames = <<>>
    /\ commits = <<>>

Init ==
    /\ EmptyStore \/ StoreWithBucket
    /\ objects = {}
    /\ files = <<>>
    /\ task = [t \in Tasks |-> IdleTask]
    /\ now = 0
    /\ faults = 0
    /\ nops = 0
    /\ hist = <<>>
    /\ renames = <<>>
    /\ commits = <<>>

Next ==
    \E t \in Tasks :
        \/ \E b \in BucketNames, k \in Keys, c \in ContentTypes, body \in Bodies :
              upload_begin(t, b, k, c, body)
        \/ upload_create_dir(t)
        \/ upload_create_tmp(t)
        \/ upload_chunk(t)
        \/ upload_flush_sync(t)
        \/ upload_rename(t)
        \/ upload_retry_remove(t)
        \/ upload_retry_rename(t)
        \/ upload_upsert(t)
        \/ upload_cleanup(t)
        \/ \E b \in BucketNames, k \in Keys : reader_begin(t, b, k)
        \/ reader_fetch(t)
        \/ reader_open(t)
        \/ \E b \in BucketNames, k \in Keys : metadata_begin(t, b, k)
        \/ metadata_fetch(t)
        \/ \E b \in BucketNames, p \in ListParams : list_begin(t, b, p)
        \/ list_query(t)
        \/ \E b \in BucketNames, k \in Keys : delete_begin(t, b, k)
        \/ delete_fetch(t)
        \/ delete_update(t)
        \/ delete_unlink(t)
        \/ delete_prune(t)
        \/ \E b \in BucketNames, r \in Regions : create_bucket_begin(t, b, r)
        \/ create_bucket_insert(t)
        \/ \E b \in BucketNames, r \in {None} \cup {Some(x) : x \in Regions} :
              http_create_bucket(t, b, r)

Spec == Init /\ [][Next]_vars

\* Buckets that come and go under the uploads to them.
InitBucket ==
    /\ \/ (EmptyStore \/ StoreWithBucket) /\ objects = {} /\ files = <<>>
       \/ StoreWithObject
    /\ NoRequests

NextBucket ==
    \E t \in Tasks :
        \/ \E b \in BucketNames, k \in Keys, c \in ContentTypes, body \in Bodies :
              upload_begin(t, b, k, c, body)
        \/ upload_create_dir(t)
        \/ upload_create_tmp(t)
        \/ upload_chunk(t)
        \/ upload_flush_sync(t)
        \/ upload_rename(t)
        \/ upload_retry_remove(t)
        \/ upload_retry_rename(t)
        \/ upload_upsert(t)
        \/ upload_cleanup(t)
        \/ \E b \in BucketNames, r \in Regions : create_bucket_begin(t, b, r)
        \/ create_bucket_insert(t)
        \/ \E b \in BucketNames : http_create_bucket(t, b, None)
        \/ \E b \in BucketNames : delete_bucket_begin(t, b)
        \/ delete_bucket_remove_dir(t)
        \/ \E b \in BucketNames : http_delete_bucket(t, b)

SpecBucket == InitBucket /\ [][NextBucket]_vars

\* The row of an empty object uploaded to key ListKeys[n] of bucket bucket_id.
list_row(bucket_id, n, is_deleted) ==
    [new_object(10 + n, bucket_id, ListKeys[n], None, 0, hex(md5_compute(<<>>)), 0)
        EXCEPT !.is_deleted = is_deleted]

\* A store of two buckets after uploads and deletes: any of five keys live in
\* "bkt", one key of "bkt" deleted, one key live in "bk2".
StoreWithKeys ==
    \E live \in SUBSET {1, 2, 3, 6, 7} :
        /\ buckets = { new_bucket(1, <<98, 107, 116>>, 2, <<108, 111, 99, 97, 108>>, 0),
                       new_bucket(3, <<98, 107, 50>>, 4, <<108, 111, 99, 97, 108>>, 0) }
        /\ objects = { list_row(1, n, FALSE) : n \in live }
                        \cup { list_row(1, 5, TRUE), list_row(3, 4, FALSE) }
        /\ files = [q \in { object_path(<<98, 107, 116>>, ListKeys[n]) : n \in live }
                           \cup { object_path(<<98, 107, 50>>, ListKeys[4]) } |-> <<>>]
        /\ dirs = UNION { Prefixes(parent(object_path(<<98, 107, 116>>, ListKeys[n]))) :
                            n \in live }
                     \cup Prefixes(parent(object_path(<<98, 107, 50>>, ListKeys[4])))
                     \cup { bucket_root(<<98, 107, 116>>) }
        /\ uuid = 30

InitList == StoreWithKeys /\ NoRequests

\* A client pages through a listing while nothing is written.
NextList ==
    \E t \in Tasks :
        \/ \E b \in BucketNames, p \in ListInputs : list_first_page(t, b, p)
        \/ list_next_page(t)
        \/ list_query(t)

SpecList == InitList /\ [][NextList]_vars

\* The keys of one request: well-formed keys, and keys at each limit of
\* ensure_key_safe.
TestKeys ==
    { <<107>>,                                  \* "k"
      <<100, 47, 195, 169, 46, 120>>,           \* "d/é.x"
      <<32>>,                                   \* " "
      [i \in 1..MAX_OBJECT_KEY_LEN |-> 97],     \* 1024 bytes
      [i \in 1..MAX_OBJECT_KEY_LEN + 1 |-> 97], \* 1025 bytes
      <<>>,                                     \* ""
      <<47, 107>>,                              \* "/k"
      <<97, 46, 46, 98>>,                       \* "a..b"
      <<97, 0, 98>>,                            \* "a\0b"
      <<97, 92, 98>>,                           \* "a\b"
      <<97, 31>>,                               \* "a\x1f"
      <<97, 10, 98>>,                           \* "a\nb"
      <<127>> }                                 \* DEL

\* The bucket of StoreWithObject, and a name no bucket has.
TestBuckets == BucketNames \cup { <<110, 111, 98>> }         \* "nob"

InitKeys == StoreWithObject /\ NoRequests

\* One request with a key of TestKeys, by each operation that takes a key.
NextKeys ==
    \E t \in Tasks :
        \/ \E b \in TestBuckets, k \in TestKeys, c \in ContentTypes, d \in Bodies :
               nops = 0 /\ upload_begin(t, b, k, c, d)
        \/ upload_create_dir(t)
        \/ upload_create_tmp(t)
        \/ upload_chunk(t)
        \/ upload_flush_sync(t)
        \/ upload_rename(t)
        \/ upload_retry_remove(t)
        \/ upload_retry_rename(t)
        \/ upload_upsert(t)
        \/ upload_cleanup(t)
        \/ \E b \in TestBuckets, k \in TestKeys : nops = 0 /\ reader_begin(t, b, k)
        \/ reader_fetch(t)
        \/ reader_open(t)
        \/ \E b \in TestBuckets, k \in TestKeys : nops = 0 /\ metadata_begin(t, b, k)
        \/ metadata_fetch(t)
        \/ \E b \in TestBuckets, k \in TestKeys : nops = 0 /\ delete_begin(t, b, k)
        \/ delete_fetch(t)
        \/ delete_update(t)
        \/ delete_unlink(t)
        \/ delete_prune(t)

SpecKeys == InitKeys /\ [][NextKeys]_vars

\* The bucket names of a request: names at each limit of
\* ensure_bucket_name_safe.
TestNames ==
    { <<102, 111, 111, 46, 98, 97, 114, 45, 98, 97, 122>>,   \* "foo.bar-baz"
      <<97, 98, 99>>,                                        \* "abc"
      [i \in 1..BUCKET_NAME_MAX_LEN |-> 97],                 \* 63 characters
      [i \in 1..BUCKET_NAME_MAX_LEN + 1 |-> 97],             \* 64 characters
      <<97, 98>>,                                            \* "ab"
      <<45, 102, 111, 111>>,                                 \* "-foo"
      <<102, 111, 111, 45>>,                                 \* "foo-"
      <<46, 102, 111, 111>>,                                 \* ".foo"
      <<102, 111, 111, 46>>,                                 \* "foo."
      <<102, 111, 111, 46, 46, 98, 97, 114>>,                \* "foo..bar"
      <<102, 111, 111, 46, 45, 98, 97, 114>>,                \* "foo.-bar"
      <<102, 111, 111, 45, 46, 98, 97, 114>>,                \* "foo-.bar"
      <<70, 111, 111>>,                                      \* "Foo"
      <<102, 95, 111>>,                                      \* "f_o"
      <<32, 102, 111, 111>>,                                 \* " foo"
      <<49, 48, 46, 48, 46, 48, 46, 49>>,                    \* "10.0.0.1"
      <<50, 53, 54, 46, 48, 46, 48, 46, 49>>,                \* "256.0.0.1"
      <<49, 46, 50, 46, 51>>,                                \* "1.2.3"
      <<49, 46, 50, 46, 51, 46, 97>> }                       \* "1.2.3.a"

\* The regions of a request: of the allow-list, in another case, and outside it.
TestRegions ==
    { <<108, 111, 99, 97, 108>>,                     \* "local"
      <<85, 115, 45, 87, 101, 115, 116, 45, 50>>,    \* "Us-West-2"
      <<109, 97, 114, 115>> }                        \* "mars"

\* The requests of one behaviour.
MaxNameOps == 2

InitNames == EmptyStore /\ objects = {} /\ files = <<>> /\ NoRequests

\* Buckets are created and deleted under names of TestNames, by the engine and
\* by the HTTP handlers.
NextNames ==
    \E t \in Tasks :
        \/ \E b \in TestNames, r \in TestRegions :
               nops < MaxNameOps /\ create_bucket_begin(t, b, r)
        \/ create_bucket_insert(t)
        \/ \E b \in TestNames, r \in {None} \cup {Some(x) : x \in TestRegions} :
               nops < MaxNameOps /\ http_create_bucket(t, b, r)
        \/ \E b \in TestNames : nops < MaxNameOps /\ delete_bucket_begin(t, b)
        \/ delete_bucket_remove_dir(t)

SpecNames == InitNames /\ [][NextNames]_vars

\* Uploads that their callers may cancel.
InitCancel ==
    /\ \/ StoreWithBucket /\ objects = {} /\ files = <<>>
       \/ StoreWithObject
    /\ NoRequests

NextCancel ==
    \E t \in Tasks :
        \/ \E b \in BucketNames, k \in Keys, c \in ContentTypes, body \in Bodies :
              upload_begin(t, b, k, c, body)
        \/ upload_create_dir(t)
        \/ upload_create_tmp(t)
        \/ upload_chunk(t)
        \/ upload_flush_sync(t)
        \/ upload_rename(t)
        \/ upload_retry_remove(t)
        \/ upload_retry_rename(t)
        \/ upload_upsert(t)
        \/ upload_cleanup(t)
        \/ upload_cancel(t)

SpecCancel == InitCancel /\ [][NextCancel]_vars

\* Uploads over a committed object, and reads of it, where rename may refuse to
\* replace a file.
InitRetry == StoreWithObject /\ NoRequests

NextRetry ==
    \E t \in Tasks :
        \/ \E b \in BucketNames, k \in Keys, c \in ContentTypes, body \in Bodies :
              upload_begin(t, b, k, c, body)
        \/ upload_create_dir(t)
        \/ upload_create_tmp(t)
        \/ upload_chunk(t)
        \/ upload_flush_sync(t)
        \/ upload_rename(t)
        \/ upload_rename_exists(t)
        \/ upload_retry_remove(t)
        \/ upload_retry_rename(t)
        \/ upload_upsert(t)
        \/ upload_cleanup(t)
        \/ \E b \in BucketNames, k \in Keys : reader_begin(t, b, k)
        \/ reader_fetch(t)
        \/ reader_open(t)

SpecRetry == InitRetry /\ [][NextRetry]_vars

\* The store after an upload of the body <<1>> with content type "t" to the key
\* "k" and a delete_object of that key: the row stays, marked deleted, the payload
\* and its directories are gone.
StoreWithDeleted ==
    /\ buckets = { new_bucket(1, <<98, 107, 116>>, 2, <<108, 111, 99, 97, 108>>, 0) }
    /\ objects = { [new_object(4, 1, <<107>>, Some(<<116>>), 1, hex(md5_compute(<<1>>)), 0)
                       EXCEPT !.is_deleted = TRUE] }
    /\ dirs = { bucket_root(<<98, 107, 116>>) }
    /\ files = <<>>
    /\ uuid = 4

\* Uploads to a deleted key, and reads and listings of it.
InitRevive == StoreWithDeleted /\ NoRequests

NextRevive ==
    \E t \in Tasks :
        \/ \E b \in BucketNames, k \in Keys, c \in ContentTypes, body \in Bodies :
              upload_begin(t, b, k, c, body)
        \/ upload_create_dir(t)
        \/ upload_create_tmp(t)
        \/ upload_chunk(t)
        \/ upload_flush_sync(t)
        \/ upload_rename(t)
        \/ upload_retry_remove(t)
        \/ upload_retry_rename(t)
        \/ upload_upsert(t)
        \/ upload_cleanup(t)
        \/ \E b \in BucketNames, k \in Keys : metadata_begin(t, b, k)
        \/ metadata_fetch(t)
        \/ \E b \in BucketNames, p \in ListParams : list_begin(t, b, p)
        \/ list_query(t)

SpecRevive == InitRevive /\ [][NextRevive]_vars

\* Two keys of one directory whose paths share both shards: "d/b0" and "d/aQ".
SharedKeys == { <<100, 47, 98, 48>>, <<100, 47, 97, 81>> }

\* The store after an upload of the body <<1>> to the key "d/b0".
StoreWithShared ==
    /\ buckets = { new_bucket(1, <<98, 107, 116>>, 2, <<108, 111, 99, 97, 108>>, 0) }
    /\ objects = { new_object(4, 1, <<100, 47, 98, 48>>, None, 1, hex(md5_compute(<<1>>)), 0) }
    /\ dirs = Prefixes(parent(object_path(<<98, 107, 116>>, <<100, 47, 98, 48>>)))
    /\ files = (object_path(<<98, 107, 116>>, <<100, 47, 98, 48>>) :> <<1>>)
    /\ uuid = 4

\* Deletes and uploads of keys whose payloads share their directories; a
\* pruning that has begun is not left waiting for ever.
InitPrune == StoreWithShared /\ NoRequests

NextPrune ==
    \E t \in Tasks :
        \/ \E b \in BucketNames, k \in SharedKeys, c \in ContentTypes :
              upload_begin(t, b, k, c, <<1>>)
        \/ upload_create_dir(t)
        \/ upload_create_tmp(t)
        \/ upload_chunk(t)
        \/ upload_flush_sync(t)
        \/ upload_rename(t)
        \/ upload_retry_remove(t)
        \/ upload_retry_rename(t)
        \/ upload_upsert(t)
        \/ upload_cleanup(t)
        \/ \E b \in BucketNames, k \in SharedKeys : delete_begin(t, b, k)
        \/ delete_fetch(t)
        \/ delete_update(t)
        \/ delete_unlink(t)
        \/ delete_prune(t)

SpecPrune ==
    InitPrune /\ [][NextPrune]_vars /\ \A t \in Tasks : WF_vars(delete_prune(t))

\* The buckets of one request: the bucket of StoreWithObject, a name no bucket
\* has, and names that are no bucket names ("Foo", "ab").
RequestBuckets == TestBuckets \cup { <<70, 111, 111>>, <<97, 98>> }

\* One request of any operation, with keys, bucket names and regions that pass
\* validation and that do not.
NextValidate ==
    \E t \in Tasks :
        \/ \E b \in RequestBuckets, k \in TestKeys, c \in ContentTypes, d \in Bodies :
               nops = 0 /\ upload_begin(t, b, k, c, d)
        \/ upload_create_dir(t)
        \/ upload_create_tmp(t)
        \/ upload_chunk(t)
        \/ upload_flush_sync(t)
        \/ upload_rename(t)
        \/ upload_retry_remove(t)
        \/ upload_retry_rename(t)
        \/ upload_upsert(t)
        \/ upload_cleanup(t)
        \/ \E b \in RequestBuckets, k \in TestKeys : nops = 0 /\ reader_begin(t, b, k)
        \/ reader_fetch(t)
        \/ reader_open(t)
        \/ \E b \in RequestBuckets, k \in TestKeys : nops = 0 /\ metadata_begin(t, b, k)
        \/ metadata_fetch(t)
        \/ \E b \in RequestBuckets, k \in TestKeys : nops = 0 /\ delete_begin(t, b, k)
        \/ delete_fetch(t)
        \/ delete_update(t)
        \/ delete_unlink(t)
        \/ delete_prune(t)
        \/ \E b \in RequestBuckets, p \in ListParams : nops = 0 /\ list_begin(t, b, p)
        \/ list_query(t)
        \/ \E b \in RequestBuckets, r \in TestRegions :
               nops = 0 /\ create_bucket_begin(t, b, r)
        \/ create_bucket_insert(t)

SpecValidate == InitKeys /\ [][NextValidate]_vars

\* Two buckets, "bkt" and "bk2".
TwoBuckets == { <<98, 107, 116>>, <<98, 107, 50>> }

\* The store after create_bucket and an upload to the key "k" in each of them:
\* the body <<1>> in "bkt", the body <<2, 3>> in "bk2".
StoreWithTwoBuckets ==
    /\ buckets = { new_bucket(1, <<98, 107, 116>>, 2, <<108, 111, 99, 97, 108>>, 0),
                   new_bucket(5, <<98, 107, 50>>, 6, <<108, 111, 99, 97, 108>>, 0) }
    /\ objects = { new_object(4, 1, <<107>>, None, 1, hex(md5_compute(<<1>>)), 0),
                   new_object(8, 5, <<107>>, None, 2, hex(md5_compute(<<2, 3>>)), 0) }
    /\ dirs = Prefixes(parent(object_path(<<98, 107, 116>>, <<107>>)))
                 \cup Prefixes(parent(object_path(<<98, 107, 50>>, <<107>>)))
    /\ files = [q \in { object_path(b, <<107>>) : b \in TwoBuckets } |->
                   IF q = object_path(<<98, 107, 116>>, <<107>>) THEN <<1>> ELSE <<2, 3>>]
    /\ uuid = 8

\* Reads, listings and deletes in two buckets, while buckets are deleted and
\* created again.
InitIsolate == StoreWithTwoBuckets /\ NoRequests

NextIsolate ==
    \E t \in Tasks :
        \/ \E b \in TwoBuckets, k \in Keys : reader_begin(t, b, k)
        \/ reader_fetch(t)
        \/ reader_open(t)
        \/ \E b \in TwoBuckets, k \in Keys : metadata_begin(t, b, k)
        \/ metadata_fetch(t)
        \/ \E b \in TwoBuckets, p \in ListParams : list_begin(t, b, p)
        \/ list_query(t)
        \/ \E b \in TwoBuckets, k \in Keys : delete_begin(t, b, k)
        \/ delete_fetch(t)
        \/ delete_update(t)
        \/ delete_unlink(t)
        \/ delete_prune(t)
        \/ \E b \in TwoBuckets : create_bucket_begin(t, b, <<108, 111, 99, 97, 108>>)
        \/ create_bucket_insert(t)
        \/ \E b \in TwoBuckets : delete_bucket_begin(t, b)
        \/ delete_bucket_remove_dir(t)

SpecIsolate == InitIsolate /\ [][NextIsolate]_vars

\* Bucket names of the requests on paths: "foo.bar-baz", "a-b", and "Foo", which
\* is no bucket name.
PathNames ==
    { <<102, 111, 111, 46, 98, 97, 114, 45, 98, 97, 122>>, <<97, 45, 98>>,
      <<70, 111, 111>> }

\* Their keys: "k", "d/é.x", "a//b", "./a/./b", and "a/../b", which is no key.
PathKeys ==
    { <<107>>, <<100, 47, 195, 169, 46, 120>>, <<97, 47, 47, 98>>,
      <<46, 47, 97, 47, 46, 47, 98>>, <<97, 47, 46, 46, 47, 98>> }

\* A bucket is created, a key is uploaded, and a key is uploaded, read or deleted.
NextPaths ==
    \E t \in Tasks :
        \/ \E b \in PathNames :
               nops = 0 /\ create_bucket_begin(t, b, <<108, 111, 99, 97, 108>>)
        \/ create_bucket_insert(t)
        \/ \E b \in PathNames, k \in PathKeys, c \in ContentTypes :
               nops \in {1, 2} /\ upload_begin(t, b, k, c, <<1>>)
        \/ upload_create_dir(t)
        \/ upload_create_tmp(t)
        \/ upload_chunk(t)
        \/ upload_flush_sync(t)
        \/ upload_rename(t)
        \/ upload_retry_remove(t)
        \/ upload_retry_rename(t)
        \/ upload_upsert(t)
        \/ upload_cleanup(t)
        \/ \E b \in PathNames, k \in PathKeys : nops = 2 /\ reader_begin(t, b, k)
        \/ reader_fetch(t)
        \/ reader_open(t)
        \/ \E b \in PathNames, k \in PathKeys : nops = 2 /\ delete_begin(t, b, k)
        \/ delete_fetch(t)
        \/ delete_update(t)
        \/ delete_unlink(t)
        \/ delete_prune(t)

SpecPaths == InitNames /\ [][NextPaths]_vars

(***************************************************************************)
(* What the claims speak of.                                               *)
(***************************************************************************)
ObjectOps ==
    {"upload_object_stream", "get_object_reader", "get_object_metadata", "delete_object"}

\* The completed operations on (bucket, key), as indices of hist.
OpsOn(bucket, key) ==
    { m \in DOMAIN hist : /\ hist[m].op \in ObjectOps
                          /\ hist[m].bucket = bucket
                          /\ hist[m].key = key }

\* The tasks with an operation on (bucket, key) in progress.
Busy(bucket, key) ==
    { t \in Tasks : /\ task[t].pc # "idle"
                    /\ task[t].op \in ObjectOps
                    /\ task[t].bucket = bucket
                    /\ task[t].key = key }

Quiet(bucket, key) == Busy(bucket, key) = {}

\* Operation i had returned when operation j was invoked.
Before(i, j) == i <= hist[j].inv

\* Operations i and j overlapped in time.
Overlap(i, j) == i # j /\ ~ Before(i, j) /\ ~ Before(j, i)

UploadOk(i) == hist[i].op = "upload_object_stream" /\ hist[i].res.kind = "Ok"

\* No operation on the key other than those of S ran between the first invocation
\* and the last return of S.
Alone(S, bucket, key) ==
    /\ \A m \in OpsOn(bucket, key) \ S :
          \/ \A i \in S : Before(m, i)
          \/ \A i \in S : Before(i, m)
    /\ \A t \in Busy(bucket, key) : \A i \in S : i <= task[t].inv

\* No operation on the key ran since the first invocation of S, other than S.
Last(S, bucket, key) ==
    /\ \A m \in OpsOn(bucket, key) \ S : \A i \in S : Before(m, i)
    /\ Quiet(bucket, key)

\* What get_object_reader returns when it runs with nothing in between its steps.
get_object_reader_result(bucket, key) ==
    LET r == resolve(bucket, key)
        o == fetch_object(r.row[1], key)
        path == object_path(r.row[1].name, key)
    IN IF r.kind # "Ok" THEN r
       ELSE IF o.kind # "Ok" THEN o
       ELSE IF path \in DOMAIN files
            THEN [kind |-> "Ok", row |-> o.row, content |-> Some(files[path])]
            ELSE Err("ObjectNotFound")

LiveRows(bucket_id, key) ==
    { o \in object_rows(objects, bucket_id, key) : ~ o.is_deleted }

is_lowercase_hex(s) ==
    \A i \in 1..Len(s) : is_ascii_digit(s[i]) \/ (s[i] >= 97 /\ s[i] <= 102)

\* C1: whenever no operation on a key is in progress, every live row of the key
\* has a payload file at its planned path whose MD5 is the row's etag and whose
\* length is the row's size_bytes.
C1_LiveRowMatchesPayload ==
    \A o \in objects : \A b \in buckets :
        (b.id = o.bucket_id /\ ~ o.is_deleted /\ Quiet(b.name, o.key)) =>
            LET path == object_path(b.name, o.key)
            IN /\ path \in DOMAIN files
               /\ o.etag = Some(hex(md5_compute(files[path])))
               /\ o.size_bytes = Len(files[path])

\* C2: there is at most one object row, and so at most one live row, for every
\* (bucket_id, key).
C2_OneRowPerKey ==
    \A o1 \in objects : \A o2 \in objects :
        (o1.bucket_id = o2.bucket_id /\ o1.key = o2.key) => o1 = o2

\* An upload has replaced the row of an earlier upload to the same key.
C2_Witness ==
    \E i \in DOMAIN hist : \E j \in DOMAIN hist :
        /\ i < j /\ UploadOk(i) /\ UploadOk(j)
        /\ hist[i].bucket = hist[j].bucket /\ hist[i].key = hist[j].key
        /\ hist[i].body # hist[j].body
        /\ Cardinality(objects) = 1

\* C3: a reader that runs while an upload to an existing key is in progress (and
\* no delete is) gets the complete payload of some upload: it never finds the
\* final path absent and never reads a partly written payload.
C3_ReaderSeesCompletePayload ==
    \A j \in DOMAIN hist :
        LET g == hist[j]
            uploads == { m \in OpsOn(g.bucket, g.key) :
                            hist[m].op = "upload_object_stream" /\ hist[m].inv < j }
            uploading == { t \in Busy(g.bucket, g.key) :
                            task[t].op = "upload_object_stream" /\ task[t].inv < j }
            deletes == { m \in OpsOn(g.bucket, g.key) :
                            hist[m].op = "delete_object" /\ hist[m].inv < j }
            deleting == { t \in Busy(g.bucket, g.key) :
                            task[t].op = "delete_object" /\ task[t].inv < j }
        IN (/\ g.op = "get_object_reader"
            /\ g.res.kind # "Io"
            /\ \E i \in uploads : UploadOk(i) /\ Before(i, j)
            /\ (\E u \in uploads : Overlap(u, j)) \/ uploading # {}
            /\ deletes = {} /\ deleting = {})
           => /\ g.res.kind = "Ok"
              /\ g.res.content[1] \in { hist[m].body : m \in uploads }
                                        \cup { task[t].body : t \in uploading }

\* C4: a reader that follows a successful upload of body B, with no other
\* operation on the key in between, returns B and a row whose etag is the
\* lowercase hex MD5 of B and whose size_bytes is Len(B).
C4_RoundTrip ==
    \A i \in DOMAIN hist : \A j \in DOMAIN hist :
        (/\ UploadOk(i)
         /\ hist[j].op = "get_object_reader"
         /\ hist[j].bucket = hist[i].bucket /\ hist[j].key = hist[i].key
         /\ Before(i, j)
         /\ Alone({i, j}, hist[i].bucket, hist[i].key)
         /\ hist[j].res.kind # "Io")
        => /\ hist[j].res.kind = "Ok"
           /\ hist[j].res.content = Some(hist[i].body)
           /\ hist[j].res.row[1].etag = Some(hex(md5_compute(hist[i].body)))
           /\ is_lowercase_hex(hist[j].res.row[1].etag[1])
           /\ Len(hist[j].res.row[1].etag[1]) = 2 * Len(md5_compute(hist[i].body))
           /\ hist[j].res.row[1].size_bytes = Len(hist[i].body)
           /\ hist[j].res.row = hist[i].res.row

\* A two-byte body was uploaded and then read back.
C4_Witness ==
    \E i \in DOMAIN hist : \E j \in DOMAIN hist :
        /\ UploadOk(i)
        /\ Len(hist[i].body) = 2
        /\ hist[j].op = "get_object_reader"
        /\ hist[j].bucket = hist[i].bucket /\ hist[j].key = hist[i].key
        /\ Before(i, j)
        /\ Alone({i, j}, hist[i].bucket, hist[i].key)
        /\ hist[j].res.kind = "Ok"

LinOps(bucket, key) ==
    { m \in OpsOn(bucket, key) :
        /\ hist[m].op \in {"upload_object_stream", "get_object_metadata", "delete_object"}
        /\ hist[m].res.kind \in {"Ok", "ObjectNotFound"} }

Perms(S) ==
    { f \in [1..Cardinality(S) -> S] :
        \A a \in DOMAIN f : \A b \in DOMAIN f : a # b => f[a] # f[b] }

\* The order f keeps the order of the operations that did not overlap.
RealTime(f) ==
    \A a \in DOMAIN f : \A b \in DOMAIN f : Before(f[a], f[b]) => a < b

\* Run one after the other in the order f from position pos, with row (None, or
\* the key's row) the state of the key, every operation returns what it returned.
RECURSIVE Legal(_, _, _)
Legal(f, pos, row) ==
    IF pos > Len(f) THEN TRUE
    ELSE LET e == hist[f[pos]]
             live == row # None /\ ~ row[1].is_deleted
         IN CASE e.op = "upload_object_stream" ->
                    /\ e.res.kind = "Ok"
                    /\ row # None => e.res.row[1].id = row[1].id
                    /\ Legal(f, pos + 1, e.res.row)
              [] e.op = "get_object_metadata" ->
                    /\ IF live THEN e.res.kind = "Ok" /\ e.res.row = row
                       ELSE e.res.kind = "ObjectNotFound"
                    /\ Legal(f, pos + 1, row)
              [] e.op = "delete_object" ->
                    IF live
                    THEN /\ e.res.kind = "Ok" /\ e.res.row = row
                         /\ Legal(f, pos + 1, Some([row[1] EXCEPT !.is_deleted = TRUE]))
                    ELSE /\ e.res.kind = "ObjectNotFound"
                         /\ Legal(f, pos + 1, row)

\* C6: the rows that the uploads, deletes and metadata reads of one key return
\* are those of some sequential order of them that keeps their real-time order
\* (runs without injected failures, all operations returned).
C6_Linearizable ==
    \A b \in BucketNames : \A k \in Keys :
        (faults = 0 /\ \A t \in Tasks : task[t].pc = "idle") =>
            \E f \in Perms(LinOps(b, k)) : RealTime(f) /\ Legal(f, 1, None)

\* The operation of S that comes last in seq (renames or commits).
LastOf(seq, S) ==
    CHOOSE x \in S : \E p \in DOMAIN seq :
        seq[p] = x /\ \A q \in DOMAIN seq : seq[q] \in S => q <= p

\* The body of the upload with identifier id.
BodyOf(id) == hist[CHOOSE m \in DOMAIN hist : hist[m].id = id].body

\* C7: after two overlapping successful uploads to a key, the payload at the
\* final path is the body of the one that renamed last and the live row has the
\* size and etag of the one that upserted last.
C7_LastWriterWins ==
    \A i \in DOMAIN hist : \A j \in DOMAIN hist :
        (/\ UploadOk(i) /\ UploadOk(j)
         /\ hist[j].bucket = hist[i].bucket /\ hist[j].key = hist[i].key
         /\ Overlap(i, j)
         /\ Last({i, j}, hist[i].bucket, hist[i].key))
        => LET ids == {hist[i].id, hist[j].id}
               path == object_path(hist[i].bucket, hist[i].key)
               rows == LiveRows(hist[i].res.row[1].bucket_id, hist[i].key)
           IN /\ path \in DOMAIN files
              /\ files[path] = BodyOf(LastOf(renames, ids))
              /\ Cardinality(rows) = 1
              /\ \A o \in rows :
                    /\ o.etag = Some(hex(md5_compute(BodyOf(LastOf(commits, ids)))))
                    /\ o.size_bytes = Len(BodyOf(LastOf(commits, ids)))

\* Two overlapping uploads of different bodies, one of which renamed last and the
\* other upserted last.
C7_Witness ==
    \E i \in DOMAIN hist : \E j \in DOMAIN hist :
        /\ UploadOk(i) /\ UploadOk(j)
        /\ hist[j].bucket = hist[i].bucket /\ hist[j].key = hist[i].key
        /\ Overlap(i, j)
        /\ Last({i, j}, hist[i].bucket, hist[i].key)
        /\ hist[i].body # hist[j].body
        /\ LastOf(renames, {hist[i].id, hist[j].id})
              # LastOf(commits, {hist[i].id, hist[j].id})

\* C8: after an overlapping delete and upload of a key that both succeeded, the
\* key is live and a reader returns the uploaded bytes if the upsert was the last
\* metadata change, and the key is not found if the soft-delete was.
C8_LastCommitWins ==
    \A d \in DOMAIN hist : \A u \in DOMAIN hist :
        (/\ hist[d].op = "delete_object" /\ hist[d].res.kind = "Ok"
         /\ UploadOk(u)
         /\ hist[d].bucket = hist[u].bucket /\ hist[d].key = hist[u].key
         /\ Overlap(d, u)
         /\ Last({d, u}, hist[u].bucket, hist[u].key)
         /\ faults = 0)
        => LET got == get_object_reader_result(hist[u].bucket, hist[u].key)
           IN IF LastOf(commits, {hist[d].id, hist[u].id}) = hist[u].id
              THEN got.kind = "Ok" /\ got.content = Some(hist[u].body)
              ELSE got.kind = "ObjectNotFound"

\* No upload to the key of d could change its row between the invocation of d
\* and the return of l.
NoUploadBetween(d, l) ==
    /\ \A m \in DOMAIN hist :
          (/\ hist[m].op = "upload_object_stream"
           /\ hist[m].bucket = hist[d].bucket /\ hist[m].key = hist[d].key)
          => Before(m, d) \/ Before(l, m)
    /\ \A t \in Tasks :
          (/\ task[t].op = "upload_object_stream"
           /\ task[t].bucket = hist[d].bucket /\ task[t].key = hist[d].key)
          => l <= task[t].inv

\* C9: a delete of a live key that succeeds (HTTP 204) returns the row as it was
\* and leaves it soft-deleted; until the next upload the metadata read, the
\* reader and a second delete of the key return ObjectNotFound (HTTP 404 for the
\* delete) and a listing of the bucket does not contain the key.
C9_DeleteThenNotFound ==
    \A d \in DOMAIN hist :
        (hist[d].op = "delete_object" /\ hist[d].res.kind = "Ok") =>
            /\ delete_object_handler(hist[d].res) = "204"
            /\ ~ hist[d].res.row[1].is_deleted
            /\ \A u \in DOMAIN hist :
                  (/\ UploadOk(u)
                   /\ hist[u].bucket = hist[d].bucket /\ hist[u].key = hist[d].key
                   /\ Before(u, d)
                   /\ Alone({u, d}, hist[d].bucket, hist[d].key))
                  => hist[d].res.row = hist[u].res.row
            /\ Last({d}, hist[d].bucket, hist[d].key) =>
                  object_rows(objects, hist[d].res.row[1].bucket_id, hist[d].key)
                     = {[hist[d].res.row[1] EXCEPT !.is_deleted = TRUE]}
            /\ \A l \in DOMAIN hist :
                  (/\ Before(d, l)
                   /\ hist[l].bucket = hist[d].bucket
                   /\ NoUploadBetween(d, l))
                  => /\ (/\ hist[l].op \in {"get_object_metadata", "get_object_reader"}
                         /\ hist[l].key = hist[d].key)
                        => hist[l].res.kind = "ObjectNotFound"
                     /\ (hist[l].op = "delete_object" /\ hist[l].key = hist[d].key)
                        => /\ hist[l].res.kind = "ObjectNotFound"
                           /\ delete_object_handler(hist[l].res) = "404"
                     /\ (hist[l].op = "list_objects_v2" /\ hist[l].res.kind = "Ok")
                        => /\ \A n \in DOMAIN hist[l].res.list.objects :
                                 hist[l].res.list.objects[n].key # hist[d].key
                           /\ \A n \in DOMAIN hist[l].res.list.common_prefixes :
                                 ~ starts_with(hist[d].key,
                                               hist[l].res.list.common_prefixes[n])

\* An upload, a delete that returned the uploaded row, and a second delete.
C9_Witness ==
    \E u \in DOMAIN hist : \E d \in DOMAIN hist : \E l \in DOMAIN hist :
        /\ UploadOk(u)
        /\ hist[d].op = "delete_object" /\ hist[d].res.kind = "Ok"
        /\ hist[d].bucket = hist[u].bucket /\ hist[d].key = hist[u].key
        /\ Before(u, d)
        /\ hist[l].op = "delete_object"
        /\ hist[l].bucket = hist[d].bucket /\ hist[l].key = hist[d].key
        /\ Before(d, l)
        /\ hist[l].res.kind = "ObjectNotFound"

\* The same for a listing of the whole bucket.
C9_ListAfterDelete ==
    \E d \in DOMAIN hist : \E l \in DOMAIN hist :
        /\ hist[d].op = "delete_object" /\ hist[d].res.kind = "Ok"
        /\ hist[l].op = "list_objects_v2" /\ hist[l].res.kind = "Ok"
        /\ hist[l].bucket = hist[d].bucket
        /\ Before(d, l)
        /\ hist[l].res.list.key_count = 0

\* A listing that returns a live key.
ListReturnsKey ==
    \E l \in DOMAIN hist :
        /\ hist[l].op = "list_objects_v2" /\ hist[l].res.kind = "Ok"
        /\ hist[l].res.list.key_count = 1

CreateOps == {"create_bucket", "PUT /{bucket}"}

Created(i) == hist[i].op \in CreateOps /\ hist[i].res.kind \in {"Ok", "200"}

\* C10: bucket names are unique; a create on a name whose row exists returns
\* BucketAlreadyExists (409 from the handler) and leaves that row as it is; of
\* two overlapping creates of a name at most one succeeds, and exactly one when
\* the name had no row.
C10_CreateOnExistingName ==
    /\ \A b1 \in buckets : \A b2 \in buckets : b1.name = b2.name => b1 = b2
    /\ \A i \in DOMAIN hist : \A j \in DOMAIN hist :
          (/\ Created(i)
           /\ hist[j].op \in CreateOps
           /\ hist[j].bucket = hist[i].bucket
           /\ Before(i, j))
          => /\ ~ Created(j)
             /\ bucket_rows(hist[i].bucket) = {hist[i].res.row[1]}
             /\ faults = 0 =>
                   hist[j].res.kind = IF hist[j].op = "create_bucket"
                                      THEN "BucketAlreadyExists" ELSE "409"
    /\ \A i \in DOMAIN hist : \A j \in DOMAIN hist :
          (/\ hist[i].op \in CreateOps /\ hist[j].op \in CreateOps
           /\ hist[j].bucket = hist[i].bucket
           /\ Overlap(i, j))
          => /\ ~ (Created(i) /\ Created(j))
             /\ (/\ faults = 0
                 /\ \A b \in bucket_rows(hist[i].bucket) :
                       \E x \in {i, j} : Created(x) /\ hist[x].res.row = Some(b))
                => (Created(i) \/ Created(j))

\* A create that succeeded and a later create of the same name that was refused
\* as a duplicate.
C10_Witness ==
    \E i \in DOMAIN hist : \E j \in DOMAIN hist :
        /\ Created(i)
        /\ hist[j].op \in CreateOps /\ hist[j].bucket = hist[i].bucket
        /\ Before(i, j)
        /\ hist[j].res.kind \in {"BucketAlreadyExists", "409"}
        /\ hist[i].res.row[1].region # hist[j].region

\* Two overlapping creates of a name, one of which succeeded.
C10_Concurrent ==
    \E i \in DOMAIN hist : \E j \in DOMAIN hist :
        /\ hist[i].op = "create_bucket" /\ hist[j].op = "create_bucket"
        /\ Overlap(i, j)
        /\ Created(i)
        /\ hist[j].res.kind = "BucketAlreadyExists"

\* This step invokes an operation named in ops.
Invocation(ops) ==
    /\ nops' = nops + 1
    /\ \/ \E t \in Tasks : task'[t].id = nops' /\ task'[t].op \in ops
       \/ /\ Len(hist') = Len(hist) + 1
          /\ hist'[Len(hist')].id = nops'
          /\ hist'[Len(hist')].op \in ops

\* This step returns the operation that this step invoked, with a result in kinds.
ReturnsAtOnce(kinds) ==
    /\ Len(hist') = Len(hist) + 1
    /\ hist'[Len(hist')].id = nops'
    /\ hist'[Len(hist')].res.kind \in kinds

NoLiveOrphan ==
    \A o \in objects : ~ o.is_deleted => \E b \in buckets : b.id = o.bucket_id

C11_Refused ==
    \E d \in DOMAIN hist :
        /\ hist[d].op \in {"delete_bucket", "DELETE /{bucket}"}
        /\ hist[d].res.kind \in {"Sqlx", "500"}
        /\ faults = 0
        /\ \E o \in objects : ~ o.is_deleted

\* C12: a delete_bucket of a valid name that has no bucket row returns
\* BucketNotFound and leaves rows, directories and files as they are; one of a
\* name that has a row, when the DELETE does not fail, leaves no row of the name
\* and then returns Ok whatever the removal of the bucket directory ends with.
C12_DeleteBucket ==
    [][/\ \A name \in BucketNames :
             (/\ Invocation({"delete_bucket"})
              /\ ensure_bucket_name_safe(name) = Ok
              /\ \/ \E t \in Tasks : task'[t].id = nops' /\ task'[t].bucket = name
                 \/ Len(hist') > Len(hist) /\ hist'[Len(hist')].bucket = name)
             => /\ (bucket_rows(name) = {} /\ faults' = faults)
                      => ReturnsAtOnce({"BucketNotFound"})
                /\ ReturnsAtOnce({"BucketNotFound"})
                      => /\ bucket_rows(name) = {}
                         /\ UNCHANGED <<buckets, objects, dirs, files>>
                /\ (bucket_rows(name) # {} /\ ~ ReturnsAtOnce({"Sqlx"}))
                      => /\ \A b \in buckets' : b.name # name
                         /\ \E t \in Tasks : /\ task'[t].id = nops'
                                             /\ task'[t].pc = "delete_bucket_remove_dir"
       /\ \A t \in Tasks :
             (task[t].pc = "delete_bucket_remove_dir" /\ task'[t] # task[t])
             => /\ Len(hist') = Len(hist) + 1
                /\ hist'[Len(hist')].id = task[t].id
                /\ hist'[Len(hist')].res.kind = "Ok"
      ]_vars

\* A delete_bucket returned Ok although the bucket directory could not be removed.
C12_Witness ==
    \E d \in DOMAIN hist :
        /\ hist[d].op = "delete_bucket"
        /\ hist[d].res.kind = "Ok"
        /\ bucket_rows(hist[d].bucket) = {}
        /\ bucket_root(hist[d].bucket) \in dirs
        /\ faults = 1
        /\ \A m \in DOMAIN hist : hist[m].op \notin CreateOps
        /\ \A t \in Tasks : task[t].op \notin CreateOps

\* A delete_bucket returned Ok for a bucket whose directory was missing.
C12_MissingDirectory ==
    \E c \in DOMAIN hist : \E d \in DOMAIN hist :
        /\ hist[c].op = "PUT /{bucket}" /\ hist[c].res.kind = "200"
        /\ hist[d].op = "delete_bucket" /\ hist[d].res.kind = "Ok"
        /\ hist[d].bucket = hist[c].bucket
        /\ Before(c, d)
        /\ Len(hist) = 2 /\ faults = 0
        /\ dirs = {}

\* The completed listings, as indices of hist.
Listings ==
    { l \in DOMAIN hist : hist[l].op = "list_objects_v2" /\ hist[l].res.kind = "Ok" }

\* The keys of a sequence of rows.
KeysOf(rows) == [n \in DOMAIN rows |-> rows[n].key]

\* The live rows of the bucket named bucket.
LiveIn(bucket) ==
    { o \in objects : ~ o.is_deleted /\ \E b \in bucket_rows(bucket) : o.bucket_id = b.id }

StrictlyAscending(keys) ==
    \A n \in DOMAIN keys : n < Len(keys) => bytes_lt(keys[n], keys[n + 1])

\* The keys of the pages 1..n of hist, one after the other.
RECURSIVE PageKeys(_)
PageKeys(n) ==
    IF n = 0 THEN <<>> ELSE PageKeys(n - 1) \o KeysOf(hist[n].res.list.objects)

\* The client has paged to the end of a listing without a delimiter that began
\* with no continuation_token and no start_after.
PagedToTheEnd ==
    /\ hist # <<>>
    /\ DOMAIN hist = Listings
    /\ \A t \in Tasks : task[t].pc = "idle"
    /\ ~ hist[Len(hist)].res.list.is_truncated
    /\ hist[1].params[1].delimiter = None
    /\ hist[1].params[1].continuation_token = None
    /\ hist[1].params[1].start_after = None

\* C13: the pages of a listing, each asked for with the token of the one before
\* until is_truncated is false, hold one after the other the keys of a single
\* call that is not paged.
C13_PaginationComplete ==
    PagedToTheEnd =>
        PageKeys(Len(hist)) =
            KeysOf(list_objects(objects,
                                CHOOSE b \in bucket_rows(hist[1].bucket) : TRUE,
                                [hist[1].params[1] EXCEPT !.max_keys = 1000]).objects)

\* C14: a listing with no prefix, delimiter, continuation token or start_after
\* returns live rows of the bucket only, in strictly ascending key order, and all
\* of them when they are at most max_keys (clamped).
C14_ListAll ==
    \A l \in Listings :
        LET p == hist[l].params[1]
            res == hist[l].res.list
        IN (/\ p.prefix = None /\ p.delimiter = None
            /\ p.continuation_token = None /\ p.start_after = None)
           => /\ \A n \in DOMAIN res.objects : res.objects[n] \in LiveIn(hist[l].bucket)
              /\ StrictlyAscending(KeysOf(res.objects))
              /\ res.common_prefixes = <<>>
              /\ Cardinality(LiveIn(hist[l].bucket)) <= clamp(p.max_keys, 1, 1000)
                    => { res.objects[n] : n \in DOMAIN res.objects }
                          = LiveIn(hist[l].bucket)

\* A listing of everything in a bucket that holds three live keys and a deleted one.
C14_Witness ==
    \E l \in Listings :
        /\ hist[l].params[1].prefix = None /\ hist[l].params[1].delimiter = None
        /\ hist[l].params[1].continuation_token = None
        /\ hist[l].params[1].start_after = None
        /\ hist[l].params[1].max_keys = 1000
        /\ Len(hist[l].res.list.objects) = 3
        /\ \E o \in objects : o.is_deleted /\ o.bucket_id = hist[l].res.list.objects[1].bucket_id

\* C15: the token of a truncated page is the key of the last row the page
\* delivered; with three live keys and max_keys = 2 the first page is the first
\* two keys, truncated, and the page asked for with its token is the third key,
\* not truncated.
C15_TokenIsLastDelivered ==
    /\ \A l \in Listings :
          (hist[l].res.list.is_truncated /\ hist[l].params[1].delimiter = None)
          => /\ hist[l].res.list.objects # <<>>
             /\ hist[l].res.list.next_continuation_token =
                   Some(hist[l].res.list.objects[Len(hist[l].res.list.objects)].key)
    /\ (/\ PagedToTheEnd
        /\ hist[1].params[1].prefix = None
        /\ hist[1].params[1].max_keys = 2
        /\ Cardinality(LiveIn(hist[1].bucket)) = 3)
       => /\ Len(hist) = 2
          /\ hist[1].res.list.is_truncated
          /\ PageKeys(2) = KeysOf(order_by_key(LiveIn(hist[1].bucket)))
          /\ Len(hist[2].res.list.objects) = 1

\* C16: in a page of a listing with a delimiter no object key holds the
\* delimiter at or after position len(prefix).
C16_NoDelimiterInObjects ==
    \A l \in Listings :
        LET p == hist[l].params[1]
            res == hist[l].res.list
            skip == IF p.prefix = None THEN 0 ELSE Len(p.prefix[1])
        IN p.delimiter # None =>
              \A n \in DOMAIN res.objects :
                 ~ contains(SubSeq(res.objects[n].key, skip + 1, Len(res.objects[n].key)),
                            p.delimiter[1])

\* C17: every common prefix of a page is the requested prefix followed by the
\* rest of a live key up to and including its first delimiter; common_prefixes is
\* strictly ascending, objects are in ascending key order, and key_count is the
\* number of both, at most max_keys (clamped).
C17_CommonPrefixes ==
    \A l \in Listings :
        LET p == hist[l].params[1]
            res == hist[l].res.list
            prefix == IF p.prefix = None THEN <<>> ELSE p.prefix[1]
        IN /\ p.delimiter = None => res.common_prefixes = <<>>
           /\ \A n \in DOMAIN res.common_prefixes :
                 /\ starts_with(res.common_prefixes[n], prefix)
                 /\ \E o \in LiveIn(hist[l].bucket) :
                       LET rest == SubSeq(o.key, Len(prefix) + 1, Len(o.key))
                       IN /\ starts_with(o.key, prefix)
                          /\ contains(rest, p.delimiter[1])
                          /\ res.common_prefixes[n] =
                                prefix \o SubSeq(rest, 1, find(rest, p.delimiter[1])
                                                            + Len(p.delimiter[1]))
           /\ StrictlyAscending(res.common_prefixes)
           /\ StrictlyAscending(KeysOf(res.objects))
           /\ res.key_count = Len(res.objects) + Len(res.common_prefixes)
           /\ res.key_count <= clamp(p.max_keys, 1, 1000)

\* A page with a prefix that holds an object and a common prefix of two keys.
C17_Witness ==
    \E l \in Listings :
        /\ hist[l].params[1].prefix = Some(<<97>>)
        /\ hist[l].params[1].delimiter # None
        /\ Len(hist[l].res.list.common_prefixes) = 2
        /\ Len(hist[l].res.list.objects) = 1

\* The rows a listing with parameters p may return: live, of the bucket, the
\* prefix matched as the query matches it, above bound if there is one.
Eligible(bucket, p, bound) ==
    { o \in LiveIn(bucket) :
        /\ p.prefix # None => like(p.prefix[1] \o <<37>>, o.key)
        /\ bound # None => bytes_lt(bound[1], o.key) }

\* The page holds the first rows of those above bound.
PageOf(l, bound) ==
    LET p == hist[l].params[1]
        res == hist[l].res.list
        rows == Eligible(hist[l].bucket, p, bound)
    IN /\ \A n \in DOMAIN res.objects : res.objects[n] \in rows
       /\ \A o \in rows :
             \/ \E n \in DOMAIN res.objects : res.objects[n] = o
             \/ /\ res.is_truncated
                /\ \A n \in DOMAIN res.objects : bytes_lt(res.objects[n].key, o.key)

\* C18: with continuation_token and start_after both given only the keys above
\* continuation_token are returned and start_after counts for nothing; with
\* start_after alone only the keys above it; with neither there is no lower bound.
C18_CursorPriority ==
    \A l \in Listings :
        LET p == hist[l].params[1]
        IN p.delimiter = None =>
              PageOf(l, IF p.continuation_token # None THEN p.continuation_token
                        ELSE IF p.start_after # None THEN p.start_after
                        ELSE None)

\* Both given: a key above continuation_token that is not above start_after is
\* returned.
C18_Witness ==
    \E l \in Listings : \E n \in DOMAIN hist[l].res.list.objects :
        /\ hist[l].params[1].continuation_token # None
        /\ hist[l].params[1].start_after # None
        /\ hist[l].params[1].delimiter = None
        /\ bytes_lt(hist[l].params[1].continuation_token[1],
                    hist[l].res.list.objects[n].key)
        /\ ~ bytes_lt(hist[l].params[1].start_after[1], hist[l].res.list.objects[n].key)

(***************************************************************************)
(* Key validation.                                                         *)
(***************************************************************************)
\* The rule of keys, as stated: non-empty, at most 1024 bytes, no leading "/",
\* no "..", no ASCII-control byte, backslash or NUL.
KeyRule(key) ==
    /\ Len(key) >= 1
    /\ Len(key) <= 1024
    /\ key[1] # 47
    /\ \A i \in 1..Len(key) - 1 : ~ (key[i] = 46 /\ key[i + 1] = 46)
    /\ \A i \in 1..Len(key) : key[i] \notin (0..31) \cup {127, 92}

\* C19: UploadObject, GetObjectMetadata, GetObjectReader and DeleteObject
\* accept a key if and only if it is non-empty, at most 1024 bytes long, does
\* not start with "/", contains no "..", and contains no ASCII-control byte,
\* backslash or NUL; a rejected key yields InvalidObjectKey, and only a key
\* that passed validation lets the operation go on.
C19_KeyValidation ==
    /\ \A m \in DOMAIN hist :
          hist[m].op \in ObjectOps =>
              (hist[m].res.kind = "InvalidObjectKey" <=> ~ KeyRule(hist[m].key))
    /\ \A t \in Tasks :
          task[t].pc # "idle" /\ task[t].op \in ObjectOps => KeyRule(task[t].key)

\* A key with an embedded "/", a single "." and non-ASCII bytes was uploaded.
C19_Witness ==
    \E m \in DOMAIN hist :
        /\ hist[m].op = "upload_object_stream"
        /\ hist[m].key = <<100, 47, 195, 169, 46, 120>>
        /\ hist[m].res.kind = "Ok"

\* DeleteObject refused the key DEL before it looked for the bucket.
C19_Rejected ==
    \E m \in DOMAIN hist :
        /\ hist[m].op = "delete_object"
        /\ hist[m].key = <<127>>
        /\ hist[m].bucket \notin BucketNames
        /\ hist[m].res.kind = "InvalidObjectKey"

\* The keys the scenario lists.
ListedKey(key) ==
    \/ key = <<>>
    \/ Len(key) = 1025
    \/ contains(key, <<46, 46>>)
    \/ starts_with(key, <<47>>)
    \/ \E i \in 1..Len(key) : key[i] = 0

\* C20 as stated: the empty key, a 1024-byte key, a 1025-byte key, a key
\* containing "..", a key starting with "/" and a key with an embedded NUL
\* are each rejected by key validation.
C20_AllRejected ==
    \A m \in DOMAIN hist :
        hist[m].op \in ObjectOps /\ (ListedKey(hist[m].key) \/ Len(hist[m].key) = 1024)
            => hist[m].res.kind = "InvalidObjectKey"

\* C20, amended: the empty key, a 1025-byte key, a key containing "..", a key
\* starting with "/" and a key with an embedded NUL are each rejected with
\* InvalidObjectKey; a 1024-byte key of plain bytes is not rejected.
C20_RejectedKeys ==
    \A m \in DOMAIN hist :
        hist[m].op \in ObjectOps =>
            /\ ListedKey(hist[m].key) => hist[m].res.kind = "InvalidObjectKey"
            /\ hist[m].key = [i \in 1..1024 |-> 97]
                   => hist[m].res.kind # "InvalidObjectKey"

\* An operation on the 1024-byte key passed validation and ended.
C20_Witness ==
    \E m \in DOMAIN hist :
        /\ hist[m].op \in ObjectOps
        /\ Len(hist[m].key) = 1024
        /\ hist[m].res.kind = "ObjectNotFound"

\* An operation on the 1025-byte key was refused.
C20_TooLong ==
    \E m \in DOMAIN hist :
        /\ hist[m].op \in ObjectOps
        /\ Len(hist[m].key) = 1025
        /\ hist[m].res.kind = "InvalidObjectKey"

(***************************************************************************)
(* Bucket names and regions.                                               *)
(***************************************************************************)
\* The value of a segment of decimal digits.
DecimalValue(seg) ==
    IF Len(seg) = 1 THEN seg[1] - 48
    ELSE IF Len(seg) = 2 THEN 10 * (seg[1] - 48) + (seg[2] - 48)
    ELSE 100 * (seg[1] - 48) + 10 * (seg[2] - 48) + (seg[3] - 48)

\* A dotted quad: four non-empty digit-only segments of 1-3 digits, each in
\* 0-255.
DottedQuad(name) ==
    \E a, b, c \in { i \in 1..Len(name) : name[i] = 46 } :
        /\ a < b /\ b < c
        /\ { i \in 1..Len(name) : name[i] = 46 } = {a, b, c}
        /\ \A seg \in { SubSeq(name, 1, a - 1), SubSeq(name, a + 1, b - 1),
                         SubSeq(name, b + 1, c - 1), SubSeq(name, c + 1, Len(name)) } :
              /\ Len(seg) \in 1..3
              /\ \A i \in 1..Len(seg) : seg[i] \in 48..57
              /\ DecimalValue(seg) \in 0..255

AlphaNumeric(b) == b \in (97..122) \cup (48..57)

\* The rule of bucket names, as stated.
NameRule(name) ==
    /\ Len(name) \in 3..63
    /\ \A i \in 1..Len(name) : AlphaNumeric(name[i]) \/ name[i] \in {46, 45}
    /\ AlphaNumeric(name[1])
    /\ AlphaNumeric(name[Len(name)])
    /\ \A i \in 1..Len(name) - 1 :
          <<name[i], name[i + 1]>> \notin {<<46, 46>>, <<46, 45>>, <<45, 46>>}
    /\ ~ DottedQuad(name)

\* C21: the engine accepts a bucket name if and only if its length is 3-63, it
\* consists only of a-z, 0-9, "." and "-", its first and last characters are
\* alphanumeric, it contains none of "..", ".-", "-.", and it is not a dotted
\* quad; every other name is rejected with InvalidBucketName.
C21_BucketNameRule ==
    \A m \in DOMAIN hist :
        hist[m].op \in {"create_bucket", "delete_bucket"} =>
            (hist[m].res.kind = "InvalidBucketName" <=> ~ NameRule(hist[m].bucket))

\* "foo.bar-baz" was accepted and created; "10.0.0.1" was rejected.
C21_Witness ==
    /\ \E m \in DOMAIN hist :
          /\ hist[m].op = "create_bucket"
          /\ hist[m].bucket = <<102, 111, 111, 46, 98, 97, 114, 45, 98, 97, 122>>
          /\ hist[m].res.kind = "Ok"
    /\ \E m \in DOMAIN hist :
          /\ hist[m].op = "create_bucket"
          /\ hist[m].bucket = <<49, 48, 46, 48, 46, 48, 46, 49>>
          /\ hist[m].res.kind = "InvalidBucketName"

\* "256.0.0.1" is no dotted quad of segments in 0-255: it was accepted.
C21_OutOfRangeQuad ==
    \E m \in DOMAIN hist :
        /\ hist[m].op = "create_bucket"
        /\ hist[m].bucket = <<50, 53, 54, 46, 48, 46, 48, 46, 49>>
        /\ hist[m].res.kind = "Ok"

\* C22: every bucket row of the metadata store, whichever entry point created
\* it, has a name that satisfies the naming rules and a region of the
\* allow-list, stored in lowercase; a region outside the allow-list (compared
\* case-insensitively) is refused with UnsupportedRegion and no row is
\* inserted.
C22_BucketRowsValid ==
    /\ \A b \in buckets : NameRule(b.name) /\ b.region \in SUPPORTED_REGIONS
    /\ \A m \in DOMAIN hist :
          /\ hist[m].op \in CreateOps
          /\ NameRule(hist[m].bucket)
          /\ to_lowercase(hist[m].region) \notin SUPPORTED_REGIONS
          => hist[m].res.kind = "UnsupportedRegion"

(***************************************************************************)
(* Engine errors at the HTTP boundary.                                     *)
(***************************************************************************)
\* The status of each error kind, as stated (Sqlx is MetadataStoreFailure, Io
\* is FilesystemFailure).
StatusOf(kind) ==
    CASE kind \in {"BucketNotFound", "ObjectNotFound"} -> "404"
      [] kind = "BucketAlreadyExists" -> "409"
      [] kind \in {"InvalidBucketName", "UnsupportedRegion", "InvalidObjectKey"} -> "400"
      [] kind \in {"Sqlx", "Io"} -> "500"

\* C23, of the mapping alone: the mapping from engine error kind to HTTP
\* status is total and is the stated one.
C23_MappingTotal ==
    \A kind \in {"BucketNotFound", "BucketAlreadyExists", "InvalidBucketName",
                     "UnsupportedRegion", "ObjectNotFound", "InvalidObjectKey",
                     "Sqlx", "Io"} :
        kind \in DOMAIN AppError_from /\ AppError_from[kind] = StatusOf(kind)

\* C23, of the handlers: DELETE /{bucket}/{key} answers an engine error with
\* the status of its kind (an invalid key gives 400, a database failure gives
\* 500).
C23_DeleteObjectStatus ==
    \A m \in DOMAIN hist :
        hist[m].op = "delete_object" /\ hist[m].res.kind # "Ok"
            => delete_object_handler(hist[m].res) = StatusOf(hist[m].res.kind)

(***************************************************************************)
(* Uploads that fail or are cancelled.                                     *)
(***************************************************************************)
\* The upload of task t is between the creation of its temp file and the
\* installation of its payload.
BeforeInstall(t) ==
    /\ task[t].op = "upload_object_stream"
    /\ task[t].pc \in {"upload_stream", "upload_rename", "upload_retry_remove",
                       "upload_retry_rename"}

\* This step ends the operation of task t with a result of one of the kinds.
Ends(t, kinds) ==
    /\ task[t].pc # "idle"
    /\ task'[t].pc = "idle"
    /\ Len(hist') = Len(hist) + 1
    /\ hist'[Len(hist')].id = task[t].id
    /\ hist'[Len(hist')].res.kind \in kinds

\* C24: when an upload is cancelled after its temp file was created and
\* before the rename to the final path, no temp file created by that upload
\* remains once the cancellation has taken effect.
C24_CancelLeavesNoTemp ==
    [][\A t \in Tasks :
          BeforeInstall(t) /\ Ends(t, {"Cancelled"})
              => task[t].tmp_path \notin DOMAIN files']_vars

\* The upload of task t ends in this step by the cleanup after a failed upsert.
CleanupEnds(t) ==
    /\ task[t].op = "upload_object_stream"
    /\ task[t].pc = "upload_cleanup"
    /\ Ends(t, {"Ok", "Sqlx", "Io"})

\* C25 as stated: when the upsert of an upload fails after its payload was
\* renamed into place, the upload returns MetadataStoreFailure and no file
\* remains at the final path.
C25_NoOrphanPayload ==
    [][\A t \in Tasks :
          CleanupEnds(t) => /\ hist'[Len(hist')].res.kind = "Sqlx"
                            /\ task[t].file_path \notin DOMAIN files']_vars

\* C25, amended: when the upsert of an upload fails after its payload was
\* renamed into place, the upload returns MetadataStoreFailure in every case;
\* it unlinks the file at the final path on the way, and no file remains there
\* unless that unlink itself failed.
C25_BestEffortCleanup ==
    [][\A t \in Tasks :
          CleanupEnds(t) => /\ hist'[Len(hist')].res.kind = "Sqlx"
                            /\ \/ task[t].file_path \notin DOMAIN files'
                               \/ faults' = faults + 1]_vars

\* An upload has returned MetadataStoreFailure after its payload was
\* installed, and no file is at the final path.
C25_Witness ==
    \E m \in DOMAIN hist :
        /\ hist[m].op = "upload_object_stream"
        /\ hist[m].res.kind = "Sqlx"
        /\ \E n \in DOMAIN renames : renames[n] = hist[m].id
        /\ object_path(hist[m].bucket, hist[m].key) \notin DOMAIN files

(***************************************************************************)
(* Deletes and reads over a store whose files and rows disagree.           *)
(***************************************************************************)
\* C26: once delete_object has committed its soft-delete update, it returns
\* the pre-delete row even if a later step fails: a delete whose metadata
\* mutation succeeded never returns an error.
C26_CommittedDeleteReturnsRow ==
    \A m \in DOMAIN hist :
        /\ hist[m].op = "delete_object"
        /\ \E n \in DOMAIN commits : commits[n] = hist[m].id
        => /\ hist[m].res.kind = "Ok"
           /\ hist[m].res.row # None
           /\ hist[m].res.row[1].key = hist[m].key
           /\ ~ hist[m].res.row[1].is_deleted

\* C27: get_object_reader, having found the live row of the key, returns
\* ObjectNotFound when the payload file is missing, Io (FilesystemFailure)
\* on any other error of the open, and otherwise the row with the bytes of the
\* file, whether or not the row's size and etag agree with them.
C27_ReaderOpen ==
    [][\A t \in Tasks :
          /\ task[t].op = "get_object_reader"
          /\ task[t].pc = "reader_open"
          /\ Ends(t, {"Ok", "ObjectNotFound", "Io", "Sqlx", "BucketNotFound",
                      "InvalidObjectKey"})
          => LET res == hist'[Len(hist')].res
                 path == object_path(task[t].bucket, task[t].key)
             IN IF faults' # faults THEN res.kind = "Io"
                ELSE IF path \notin DOMAIN files THEN res.kind = "ObjectNotFound"
                ELSE /\ res.kind = "Ok"
                     /\ res.row = task[t].object
                     /\ res.content = Some(files[path])]_vars

\* A read has returned ObjectNotFound for a key whose row is live and whose
\* payload file is missing.
C27_Witness ==
    /\ hist # <<>>
    /\ LET last == hist[Len(hist)]
       IN /\ last.op = "get_object_reader"
          /\ last.res.kind = "ObjectNotFound"
          /\ \E b \in buckets :
                /\ b.name = last.bucket
                /\ LiveRows(b.id, last.key) # {}
          /\ object_path(last.bucket, last.key) \notin DOMAIN files

\* A read has returned a payload whose length is not the size of its row.
C27_Mismatch ==
    \E m \in DOMAIN hist :
        /\ hist[m].op = "get_object_reader"
        /\ hist[m].res.kind = "Ok"
        /\ hist[m].res.row[1].size_bytes # Len(hist[m].res.content[1])

(***************************************************************************)
(* Uploads that fail before their payload is installed.                    *)
(***************************************************************************)
\* C28: whenever an upload returns an error raised after its temp file was
\* created and before its payload was installed at the final path (the
\* unlink-and-retry path included), the temp file of that call no longer
\* exists.
C28_ErrorLeavesNoTemp ==
    [][\A t \in Tasks :
          BeforeInstall(t) /\ Ends(t, {"Io", "Sqlx"})
              => task[t].tmp_path \notin DOMAIN files']_vars

\* The upload of hist[f] returned an error and never installed its payload.
FailedBeforeInstall(f) ==
    /\ hist[f].op = "upload_object_stream"
    /\ hist[f].res.kind # "Ok"
    /\ \A n \in DOMAIN renames : renames[n] # hist[f].id

\* C29: an upload that fails before its payload is installed leaves the
\* key's existing row and the existing payload at the final path unchanged:
\* when such an upload is all that has run on the store with the object, the
\* row and the file are those of the committed version, and a following get
\* that does not fail on its own returns that version.
C29_FailedUploadKeepsVersion ==
    /\ Len(hist) >= 1 /\ nops = 1 /\ FailedBeforeInstall(1)
       => /\ objects = { new_object(4, 1, <<107>>, None, 1, hex(md5_compute(<<1>>)), 0) }
          /\ object_path(<<98, 107, 116>>, <<107>>) \in DOMAIN files
          /\ files[object_path(<<98, 107, 116>>, <<107>>)] = <<1>>
    /\ Len(hist) = 2 /\ nops = 2 /\ FailedBeforeInstall(1) /\ Before(1, 2)
          /\ hist[2].op = "get_object_reader" /\ hist[2].res.kind # "Io"
       => /\ hist[2].res.kind = "Ok"
          /\ hist[2].res.content = Some(<<1>>)
          /\ hist[2].res.row = Some(new_object(4, 1, <<107>>, None, 1,
                                                hex(md5_compute(<<1>>)), 0))

(***************************************************************************)
(* The order of an upload's steps.                                         *)
(***************************************************************************)
Installed(id) == \E n \in DOMAIN renames : renames[n] = id

Committed(id) == \E n \in DOMAIN commits : commits[n] = id

\* Where every upload stands: nothing is installed before the stream has ended
\* and all of it is in the temp file, flushed and synced; the upsert is reached
\* only with the payload installed; only a committed upload returns Ok, and
\* with the row it has written.
UploadOrder ==
    /\ \A t \in Tasks :
          task[t].op = "upload_object_stream" =>
             /\ task[t].pc \in {"upload_create_dir", "upload_create_tmp", "upload_stream",
                                "upload_rename", "upload_retry_remove",
                                "upload_retry_rename"}
                   => ~ Installed(task[t].id) /\ ~ Committed(task[t].id)
             /\ task[t].pc \in {"upload_rename", "upload_retry_remove",
                                "upload_retry_rename"}
                   => /\ task[t].stream = <<>>
                      /\ task[t].size_bytes = Len(task[t].body)
                      /\ task[t].tmp_path \in DOMAIN files
                      /\ files[task[t].tmp_path] = task[t].body
             /\ task[t].pc \in {"upload_upsert", "upload_cleanup"}
                   => /\ Installed(task[t].id)
                      /\ ~ Committed(task[t].id)
                      /\ task[t].tmp_path \notin DOMAIN files
    /\ \A m \in DOMAIN hist :
          hist[m].op = "upload_object_stream" =>
             /\ Committed(hist[m].id) => Installed(hist[m].id)
             /\ Committed(hist[m].id) <=> hist[m].res.kind = "Ok"
             /\ hist[m].res.kind = "Ok" =>
                   /\ hist[m].res.row[1].key = hist[m].key
                   /\ hist[m].res.row[1].size_bytes = Len(hist[m].body)
                   /\ hist[m].res.row[1].etag = Some(hex(md5_compute(hist[m].body)))
                   /\ ~ hist[m].res.row[1].is_deleted

\* C30: in every upload the steps happen in the order: all chunks written to
\* the temp file, flush and fsync, rename to the final path, metadata upsert;
\* the upsert is never issued unless the fsync and the rename both succeeded,
\* and the Object returned is the row the upsert left.
C30_UploadStepOrder ==
    [][/\ UploadOrder'
       /\ \A t \in Tasks :
             task[t].op = "upload_object_stream" /\ Ends(t, {"Ok"})
                => /\ task[t].pc = "upload_upsert"
                   /\ hist'[Len(hist')].res.row[1] \in objects']_vars

\* An upload of two bytes has installed its payload, committed its row and
\* returned it.
C30_Witness ==
    \E m \in DOMAIN hist :
        /\ hist[m].op = "upload_object_stream"
        /\ hist[m].body = <<2, 3>>
        /\ hist[m].res.kind = "Ok"
        /\ Installed(hist[m].id)
        /\ Committed(hist[m].id)

\* The limit a listing works with: max_keys, at least 1 and at most 1000.
Clamped(max_keys) ==
    IF max_keys < 1 THEN 1 ELSE IF max_keys > 1000 THEN 1000 ELSE max_keys

\* The live rows a listing's query matches: those of the prefix above the cursor.
Matching(l) ==
    LET p == hist[l].params[1]
    IN Eligible(hist[l].bucket, p,
                IF p.continuation_token # None THEN p.continuation_token
                ELSE p.start_after)

UploadsBefore(m) == { i \in 1..(m - 1) : UploadOk(i) }

\* The row the latest of them returned.
RowBefore(m) ==
    hist[CHOOSE i \in UploadsBefore(m) : \A j \in UploadsBefore(m) : j <= i].res.row[1]

\* C32: a successful upload to a deleted key returns the old row's id with the
\* upload's filename, content type, size, etag, storage class, time and
\* version_id and is_deleted = false; the row is then the key's only row; a
\* get_object_metadata that returns after it returns the row of the latest
\* upload, and a listing that returns after it holds that row; before any upload
\* the key is not found and not listed.
C32_UploadRevives ==
    /\ \A i \in DOMAIN hist :
          UploadOk(i) =>
              LET o == hist[i].res.row[1]
              IN /\ o.id = 4 /\ o.bucket_id = 1 /\ o.key = hist[i].key
                 /\ o.filename = hist[i].key
                 /\ o.content_type = None
                 /\ o.size_bytes = Len(hist[i].body)
                 /\ o.etag = Some(hex(md5_compute(hist[i].body)))
                 /\ o.storage_class = "STANDARD"
                 /\ o.last_modified \in 0..MaxClock
                 /\ o.version_id = None
                 /\ ~ o.is_deleted
    /\ \A m \in DOMAIN hist :
          /\ hist[m].op = "get_object_metadata" =>
                IF UploadsBefore(m) = {} THEN hist[m].res.kind = "ObjectNotFound"
                ELSE /\ hist[m].res.kind = "Ok"
                     /\ hist[m].res.row = Some(RowBefore(m))
          /\ hist[m].op = "list_objects_v2" =>
                /\ hist[m].res.kind = "Ok"
                /\ hist[m].res.list.objects =
                      IF UploadsBefore(m) = {} THEN <<>> ELSE <<RowBefore(m)>>
    /\ (\E i \in DOMAIN hist : UploadOk(i)) =>
          /\ Cardinality(objects) = 1
          /\ \A o \in objects : o = RowBefore(Len(hist) + 1)

\* The key was not found, an upload of another body to it succeeded, and a
\* listing after it holds the row with the old id and the new size.
C32_Witness ==
    /\ Len(hist) = 3
    /\ hist[1].op = "get_object_metadata" /\ hist[1].res.kind = "ObjectNotFound"
    /\ UploadOk(2) /\ hist[2].body = <<2, 3>>
    /\ hist[3].op = "list_objects_v2"
    /\ Len(hist[3].res.list.objects) = 1
    /\ hist[3].res.list.objects[1].id = 4
    /\ hist[3].res.list.objects[1].size_bytes = 2
    /\ \A o \in objects : ~ o.is_deleted

\* A metadata read after an upload to the deleted key returned the new row.
C32_ReadAfterRevive ==
    /\ Len(hist) = 2
    /\ UploadOk(1)
    /\ hist[2].op = "get_object_metadata" /\ hist[2].res.kind = "Ok"
    /\ hist[2].res.row = hist[1].res.row

\* Task t takes a turn of prune_empty_dirs.
Pruning(t) == task[t].pc = "delete_prune" /\ task'[t] # task[t]

\* C33: a step that removes directories is a turn of a delete_object's pruning
\* that removes the one directory it stands at; that directory was empty, lies
\* on the way from the payload's parent up to the bucket root, strictly beneath
\* the bucket root, and no file is touched; a turn that removes nothing (the
\* directory is not empty, is missing, or the removal failed) ends the pruning.
C33_PruneRemovesOnlyEmpty ==
    [][/\ dirs \ dirs' # {} => \E t \in Tasks : Pruning(t)
       /\ \A t \in Tasks :
             Pruning(t) =>
                 LET stop == bucket_root(task[t].bucket_rec[1].name)
                     start == parent(task[t].file_path)
                     removed == dirs \ dirs'
                 IN /\ removed \subseteq {task[t].current}
                    /\ dirs' \subseteq dirs
                    /\ files' = files
                    /\ \A d \in removed :
                          /\ dir_is_empty(dirs, files, d)
                          /\ d \in Prefixes(start)
                          /\ starts_with(d, stop) /\ d # stop
                    /\ removed = {} => task'[t].pc = "idle"
                    /\ task'[t].pc # "idle" =>
                          /\ task'[t].pc = "delete_prune"
                          /\ task'[t].current = parent(task[t].current)]_vars

\* A delete_object has removed the payload and both shard directories, the
\* bucket root stays; another has stopped at a directory that was not empty.
C33_Witness ==
    /\ \E m \in DOMAIN hist : hist[m].op = "delete_object" /\ hist[m].res.kind = "Ok"
    /\ objects # {}
    /\ files = <<>>
    /\ dirs = { bucket_root(<<98, 107, 116>>) }

\* A delete_object has returned while the payload's directory holds the temp
\* file of an upload in progress: the pruning stopped at the directory.
C33_StoppedAtNonEmpty ==
    /\ \E m \in DOMAIN hist : hist[m].op = "delete_object" /\ hist[m].res.kind = "Ok"
    /\ \A t \in Tasks : task[t].pc \in {"idle", "upload_chunk"}
    /\ \E q \in DOMAIN files : parent(q) \in dirs /\ Len(q) = 4
    /\ \A o \in objects : o.is_deleted
    /\ objects # {}

\* A delete_object of the key has been invoked.
DeleteInvoked(bucket, key) ==
    \/ \E m \in DOMAIN hist :
          hist[m].op = "delete_object" /\ hist[m].bucket = bucket /\ hist[m].key = key
    \/ \E t \in Tasks :
          task[t].op = "delete_object" /\ task[t].bucket = bucket /\ task[t].key = key

\* C36: an upload that has created its directories and has yet to create its
\* temp file or to rename it still has the payload's parent directory, as long
\* as no delete_object of its own key was invoked: the pruning of deletes of
\* other keys does not take it away.
C36_UploadKeepsDirectory ==
    \A t \in Tasks :
        (/\ task[t].op = "upload_object_stream"
         /\ task[t].pc \in {"upload_create_tmp", "upload_stream", "upload_rename",
                            "upload_retry_remove", "upload_retry_rename"}
         /\ ~ DeleteInvoked(task[t].bucket, task[t].key))
        => parent(task[t].file_path) \in dirs

\* C40: a turn of prune_empty_dirs ends the loop or removes the directory it
\* stands at and moves to its parent; the directory it stands at is one of the
\* components from the payload's parent up to the bucket root, so that no more
\* directories are removed than there are such components; and a pruning that
\* has begun comes to its end, whatever uploads and deletes run beside it.
C40_PruneTerminates ==
    /\ [][\A t \in Tasks :
             Pruning(t) =>
                 \/ task'[t].pc = "idle"
                 \/ /\ task'[t].pc = "delete_prune"
                    /\ task[t].current \in dirs \ dirs'
                    /\ task'[t].current = parent(task[t].current)
                    /\ Len(task'[t].current) < Len(task[t].current)]_vars
    /\ [][\A t \in Tasks :
             (Pruning(t) /\ dirs' # dirs) =>
                 /\ dirs \ dirs' = {task[t].current}
                 /\ Len(task[t].current) > Len(bucket_root(task[t].bucket_rec[1].name))
                 /\ Len(task[t].current) <= Len(parent(task[t].file_path))]_vars
    /\ \A t \in Tasks : (task[t].pc = "delete_prune") ~> (task[t].pc = "idle")

\* A delete_object that overlapped an upload has returned its row after removing
\* the three directories above the payload.
C40_Witness ==
    \E m \in DOMAIN hist :
        /\ hist[m].op = "delete_object" /\ hist[m].res.kind = "Ok"
        /\ \E i \in DOMAIN hist : hist[i].op = "upload_object_stream" /\ Overlap(i, m)
        /\ dirs = { bucket_root(hist[m].bucket) }

\* The kinds of error a request is rejected with before anything is done.
Rejections == {"InvalidObjectKey", "InvalidBucketName", "UnsupportedRegion"}

\* C34: an operation on an object with a key that is against the rule returns
\* InvalidObjectKey whatever the bucket name is; with a good key and a name that
\* is no bucket name, it and list_objects_v2 return InvalidBucketName, not
\* BucketNotFound; create_bucket returns InvalidBucketName for such a name and
\* UnsupportedRegion for a good name with a region outside the list; and a
\* request rejected in one of these ways has left rows, directories, files and
\* identifiers as they were.
C34_ValidationFirst ==
    /\ \A m \in DOMAIN hist :
          /\ hist[m].op \in ObjectOps =>
                /\ ~ KeyRule(hist[m].key) => hist[m].res.kind = "InvalidObjectKey"
                /\ KeyRule(hist[m].key) /\ ~ NameRule(hist[m].bucket)
                      => hist[m].res.kind = "InvalidBucketName"
          /\ hist[m].op = "list_objects_v2" /\ ~ NameRule(hist[m].bucket)
                => hist[m].res.kind = "InvalidBucketName"
          /\ hist[m].op = "create_bucket" =>
                /\ ~ NameRule(hist[m].bucket) => hist[m].res.kind = "InvalidBucketName"
                /\ NameRule(hist[m].bucket) /\ hist[m].region \notin SUPPORTED_REGIONS
                      => hist[m].res.kind = "UnsupportedRegion"
          /\ hist[m].res.kind \in Rejections =>
                StoreWithObject /\ faults = 0 /\ now = 0
    /\ \A t \in Tasks :
          task[t].pc # "idle" =>
              /\ task[t].op \in ObjectOps => KeyRule(task[t].key)
              /\ NameRule(task[t].bucket)
              /\ task[t].op = "create_bucket" => task[t].region \in SUPPORTED_REGIONS

\* An upload with the key "a..b" to the bucket name "Foo" returned
\* InvalidObjectKey and nothing has changed.
C34_Witness ==
    /\ Len(hist) = 1
    /\ hist[1].op = "upload_object_stream"
    /\ hist[1].key = <<97, 46, 46, 98>>
    /\ hist[1].bucket = <<70, 111, 111>>
    /\ hist[1].res.kind = "InvalidObjectKey"
    /\ StoreWithObject

\* create_bucket("nob", "mars") returned UnsupportedRegion: no directory, no row.
C34_RegionRejected ==
    /\ Len(hist) = 1
    /\ hist[1].op = "create_bucket"
    /\ hist[1].bucket = <<110, 111, 98>>
    /\ hist[1].res.kind = "UnsupportedRegion"
    /\ bucket_root(<<110, 111, 98>>) \notin dirs
    /\ StoreWithObject

\* C35: when two delete_object calls on a key overlap, the key was live through
\* an upload that had returned before both, and no other operation on the key
\* ran, then one of the two returns the row of that upload and the other
\* ObjectNotFound (calls that ended in a database or I/O failure aside).
C35_OneDeleteWins ==
    \A i \in DOMAIN hist : \A j \in DOMAIN hist : \A u \in DOMAIN hist :
        (/\ hist[i].op = "delete_object" /\ hist[j].op = "delete_object"
         /\ hist[i].bucket = hist[j].bucket /\ hist[i].key = hist[j].key
         /\ Overlap(i, j)
         /\ UploadOk(u) /\ Before(u, i) /\ Before(u, j)
         /\ OpsOn(hist[i].bucket, hist[i].key) = {u, i, j}
         /\ Quiet(hist[i].bucket, hist[i].key)
         /\ hist[i].res.kind \in {"Ok", "ObjectNotFound"}
         /\ hist[j].res.kind \in {"Ok", "ObjectNotFound"})
        => /\ hist[i].res.kind # hist[j].res.kind
           /\ \A d \in {i, j} : hist[d].res.kind = "Ok" => hist[d].res.row = hist[u].res.row

\* The id of the bucket row a name had when the objects were uploaded.
FirstId(name) == IF name = <<98, 107, 116>> THEN 1 ELSE 5

\* The rows an operation has returned.
RowsOf(m) ==
    IF hist[m].res.kind # "Ok" THEN {}
    ELSE IF hist[m].op = "list_objects_v2"
         THEN { hist[m].res.list.objects[n] : n \in DOMAIN hist[m].res.list.objects }
    ELSE IF hist[m].op \in {"get_object_reader", "get_object_metadata", "delete_object"}
         THEN { hist[m].res.row[1] }
    ELSE {}

\* The bucket name of the operation that takes this step.
ActingBucket(t) ==
    IF task[t].pc # "idle" THEN task[t].bucket
    ELSE IF task'[t].pc # "idle" THEN task'[t].bucket
    ELSE hist'[Len(hist')].bucket

\* Every operation returns only rows of the bucket it was asked for, and a read
\* returns that bucket's payload.
RowsOfOwnBucket ==
    \A m \in DOMAIN hist :
        /\ \A o \in RowsOf(m) : o.bucket_id = FirstId(hist[m].bucket)
        /\ hist[m].op = "get_object_reader" /\ hist[m].res.kind = "Ok" =>
              hist[m].res.content =
                  Some(IF hist[m].bucket = <<98, 107, 116>> THEN <<1>> ELSE <<2, 3>>)

\* After a bucket was deleted and a bucket of its name created, the name lists
\* nothing and knows none of the old keys.
NewBucketIsEmpty ==
    \A d \in DOMAIN hist : \A c \in DOMAIN hist : \A m \in DOMAIN hist :
        (/\ hist[d].op = "delete_bucket" /\ hist[d].res.kind = "Ok"
         /\ hist[c].op = "create_bucket" /\ hist[c].res.kind = "Ok"
         /\ hist[c].bucket = hist[d].bucket /\ hist[m].bucket = hist[d].bucket
         /\ Before(d, c) /\ Before(c, m))
        => /\ hist[m].op = "list_objects_v2" =>
                 hist[m].res.kind = "Ok" /\ hist[m].res.list.objects = <<>>
           /\ hist[m].op \in {"get_object_reader", "get_object_metadata"} =>
                 hist[m].res.kind = "ObjectNotFound"

\* C37: an operation returns rows (and a payload) of the bucket it names only;
\* a step of an operation changes no object row of a bucket of another name and
\* no file or directory outside the root of the bucket it names; and once a
\* bucket was deleted and created again under its name, the name lists no
\* objects and get_object_metadata and get_object_reader return ObjectNotFound
\* for the keys of the old bucket.
C37_BucketIsolation ==
    /\ [](RowsOfOwnBucket /\ NewBucketIsEmpty)
    /\ [][\A t \in Tasks :
             task'[t] # task[t] =>
                 LET root == bucket_root(ActingBucket(t))
                     changed == (objects \ objects') \cup (objects' \ objects)
                     paths == (dirs \ dirs') \cup (dirs' \ dirs)
                                 \cup { q \in DOMAIN files \cup DOMAIN files' :
                                          \/ q \notin DOMAIN files
                                          \/ q \notin DOMAIN files'
                                          \/ files[q] # files'[q] }
                 IN /\ \A o \in changed : o.bucket_id = FirstId(ActingBucket(t))
                    /\ \A q \in paths : starts_with(q, root)]_vars

\* "bkt" was deleted and created again; its old key is not found under the new
\* bucket, whose id is another; the object of "bk2" is as it was.
C37_Witness ==
    /\ Len(hist) = 3
    /\ hist[1].op = "delete_bucket" /\ hist[1].res.kind = "Ok"
    /\ hist[2].op = "create_bucket" /\ hist[2].res.kind = "Ok"
    /\ hist[3].op = "get_object_metadata" /\ hist[3].res.kind = "ObjectNotFound"
    /\ \A m \in 1..3 : hist[m].bucket = <<98, 107, 116>>
    /\ \E b \in buckets : b.name = <<98, 107, 116>> /\ b.id # 1
    /\ objects = { new_object(8, 5, <<107>>, None, 2, hex(md5_compute(<<2, 3>>)), 0) }
    /\ object_path(<<98, 107, 50>>, <<107>>) \in DOMAIN files

\* A delete_object in "bk2" has returned its row while "bkt" keeps its object.
C37_DeleteInOtherBucket ==
    /\ \E m \in DOMAIN hist :
          /\ hist[m].op = "delete_object" /\ hist[m].bucket = <<98, 107, 50>>
          /\ hist[m].res.kind = "Ok"
    /\ new_object(4, 1, <<107>>, None, 1, hex(md5_compute(<<1>>)), 0) \in objects
    /\ object_path(<<98, 107, 116>>, <<107>>) \in DOMAIN files

\* C38: no step changes the id or the bucket_id of the row of a key, and a key
\* has one row at most; every successful upload to a key returns the id the
\* key's row has, which is the id the first upload to it returned, whether the
\* row was live or deleted when the later upload came.
C38_RowIdentityKept ==
    /\ [][/\ \A o \in objects : \E n \in objects' :
                n.id = o.id /\ n.bucket_id = o.bucket_id /\ n.key = o.key
          /\ \A o \in objects' : \A n \in objects' :
                (o.bucket_id = n.bucket_id /\ o.key = n.key) => o = n]_vars
    /\ [](\A i \in DOMAIN hist : \A j \in DOMAIN hist :
             (/\ UploadOk(i) /\ UploadOk(j)
              /\ hist[i].bucket = hist[j].bucket /\ hist[i].key = hist[j].key)
             => /\ hist[i].res.row[1].id = hist[j].res.row[1].id
                /\ hist[i].res.row[1].bucket_id = hist[j].res.row[1].bucket_id
                /\ \E o \in objects : o.id = hist[i].res.row[1].id /\ o.key = hist[i].key)

\* An upload, a delete and another upload of the key have succeeded in turn: the
\* second upload returned the id of the first although a new id was drawn.
C38_Witness ==
    /\ Len(hist) = 3
    /\ UploadOk(1) /\ UploadOk(3)
    /\ hist[2].op = "delete_object" /\ hist[2].res.kind = "Ok"
    /\ Before(1, 2) /\ Before(2, 3)
    /\ hist[3].res.row[1].id = hist[1].res.row[1].id
    /\ uuid > hist[1].res.row[1].id + 1
    /\ hist[3].res.row[1] \in objects

\* The components of a path joined by "/".
RECURSIVE JoinPath(_)
JoinPath(path) ==
    IF Len(path) = 0 THEN <<>>
    ELSE IF Len(path) = 1 THEN path[1]
    ELSE path[1] \o <<47>> \o JoinPath(Tail(path))

\* The key without its "." components and without the "/" that come doubled.
PlainKey(key) ==
    JoinPath(SelectSeq(split(key, 47), LAMBDA c : c # <<>> /\ c # <<46>>))

\* A path of one directory per component, none of them "", "." or "..", none
\* with a "/" in it.
PlainPath(path) ==
    \A n \in DOMAIN path :
        /\ path[n] \notin {<<>>, <<46>>, <<46, 46>>}
        /\ \A i \in DOMAIN path[n] : path[n][i] # 47

\* The paths that differ between this state and the next.
TouchedPaths ==
    (dirs \ dirs') \cup (dirs' \ dirs)
       \cup { q \in DOMAIN files \cup DOMAIN files' :
                \/ q \notin DOMAIN files
                \/ q \notin DOMAIN files'
                \/ files[q] # files'[q] }

\* C39: an operation on an object that has planned its path has a bucket name
\* and a key that pass validation; the path is the bucket's root, two shard
\* directories of two lowercase hexadecimal digits each, and the key's
\* components; it is strictly beneath the bucket's root, and so is the temp
\* file, which lies beside the payload; and every step of such an operation
\* changes directories and files strictly beneath that root only.
C39_PathsBeneathRoot ==
    /\ [](\A t \in Tasks :
             (task[t].op \in ObjectOps /\ task[t].file_path # <<>>) =>
                 LET root == bucket_root(task[t].bucket)
                     path == task[t].file_path
                 IN /\ NameRule(task[t].bucket) /\ KeyRule(task[t].key)
                    /\ root = <<task[t].bucket>>
                    /\ starts_with(path, root) /\ Len(path) >= Len(root) + 3
                    /\ Len(path[2]) = 2 /\ is_lowercase_hex(path[2])
                    /\ Len(path[3]) = 2 /\ is_lowercase_hex(path[3])
                    /\ path[2] = hex02(md5_compute(task[t].bucket \o <<47>> \o task[t].key)[1])
                    /\ path[3] = hex02(md5_compute(task[t].bucket \o <<47>> \o task[t].key)[2])
                    /\ JoinPath(SubSeq(path, 4, Len(path))) = PlainKey(task[t].key)
                    /\ PlainPath(path)
                    /\ task[t].tmp_path # <<>> =>
                          /\ parent(task[t].tmp_path) = parent(path)
                          /\ PlainPath(task[t].tmp_path))
    /\ [][\A t \in Tasks :
             (task[t].op \in ObjectOps /\ task[t].pc # "idle" /\ task'[t] # task[t]) =>
                 \A q \in TouchedPaths :
                     /\ starts_with(q, bucket_root(task[t].bucket))
                     /\ Len(q) > Len(bucket_root(task[t].bucket))]_vars

\* The key "./a/./b" was uploaded to the bucket "foo.bar-baz" and deleted again:
\* its payload was at <root>/<shard>/<shard>/a/b, and the root has stayed.
C39_Witness ==
    /\ Len(hist) = 3
    /\ UploadOk(2) /\ hist[2].key = <<46, 47, 97, 47, 46, 47, 98>>
    /\ hist[2].bucket = <<102, 111, 111, 46, 98, 97, 114, 45, 98, 97, 122>>
    /\ hist[3].op = "delete_object" /\ hist[3].res.kind = "Ok"
    /\ hist[3].key = hist[2].key /\ hist[3].bucket = hist[2].bucket
    /\ dirs = { bucket_root(hist[2].bucket) }
    /\ files = <<>>

====
